---- MODULE Spec2Model ----
(***************************************************************************)
(* Brazilian e-commerce ELT pipeline and dashboard.                        *)
(*                                                                         *)
(* The parts of the repository that are modelled, each with its own        *)
(* specification over the shared variables:                                *)
(*   SpecElasticity  dashboard, category sensitivity (streamlit_app.py)    *)
(*   SpecElasticityWide  the same on frames with more categories than the  *)
(*                   chart shows                                           *)
(*   SpecCohort      dashboard, cohort retention (streamlit_app.py)        *)
(*   SpecSeries      BCBExtractor.extract_series on one API response       *)
(*   SpecBCB         BCBExtractor.extract_and_load_all / main, repeated    *)
(*   SpecCSV         CSVLoader.load_all_csvs and the load_single_table     *)
(*                   script, repeated                                      *)
(*   SpecCorr        dashboard, category correlations (streamlit_app.py)   *)
(*   SpecFilters     dashboard, sidebar filters over the loaded frames     *)
(*   SpecLoad        dashboard, the five cached mart loaders, with the     *)
(*                   marts being built meanwhile                           *)
(*   SpecOrch        one orchestrated run: a Dagster asset job, or         *)
(*                   PipelineOrchestrator.run_full_pipeline                *)
(*   SpecEnv         start of the command-line entry points under an       *)
(*                   environment in which variables may be unset           *)
(*   SpecSched       the Dagster schedules and sensors launching runs      *)
(*   SpecIngest      load_to_bigquery of the ingestion package, repeated   *)
(*                   on a directory whose files change                     *)
(*   SpecLanguage    dashboard, the category-name language toggle          *)
(* A part that a specification does not run is parked in its off state.    *)
(***************************************************************************)
EXTENDS Integers, Sequences, FiniteSets, TLC

VARIABLES
    \* ---- dashboard: category sensitivity
    pc_dash,            \* "off" | "filtered" | "rendered"
    df_cat_filtered,    \* the filtered category records (a sequence of rows)
    category_variance,  \* the pivot table and its elasticity column
    elasticity_df,      \* the rows handed to the chart, in their order
    \* ---- dashboard: cohort retention
    pc_cohort,          \* "off" | "loaded" | "rendered"
    df_customers,       \* customer rows with first/last order dates
    retention_data,     \* the list of retention rows
    \* ---- economic indicator extractor
    pc_bcb,             \* "off" | "series" | "series_done" | "idle" | "fetch" | "load"
                        \* | "exit"
    variant,            \* which of the two copies of the extractor runs
    series_idx,         \* position of the loop over SERIES
    all_data,           \* the frames collected so far in this run
    requests_made,      \* series requested in this run, in order
    bcb_log,            \* messages printed in this run
    bcb_result,         \* outcome of the last finished run
    bq_indicators,      \* the bcb_economic_indicators table
    bq_jobs,            \* load jobs submitted to the warehouse by the extractor
    clock,              \* datetime.now(), one tick per run
    series_in,          \* SpecSeries: the response given to extract_series
    series_out,         \* SpecSeries: what extract_series did with it
    \* ---- CSV loader
    pc_csv,             \* "off" | "idle" | "loop" | "done" | "script_done"
    csv_dir,            \* the files of data/raw: filename -> contents
    bq_tables,          \* the raw dataset: table name -> rows
    csv_queue,          \* files of the current run still to visit
    csv_attempts,       \* load calls of the current run, in order
    csv_log,            \* messages printed in the current run
    loaded_tables,      \* tables loaded in the current run
    total_rows,         \* rows reported in the current run
    last_load,          \* per table, its last completed load (what was loaded,
                        \* the row count reported, whether it repeated the one before)
    \* ---- dashboard: category correlations
    pc_corr,            \* "off" | "filtered" | "rendered"
    df_cat_with_indicators, \* the filtered category records (a set of rows)
    monthly_indicators, \* per month, the averaged indicator row (or none)
    category_correlations,  \* the rows appended by the loop over categories
    \* ---- dashboard: sidebar filters
    pc_filter,          \* "off" | "shown"
    df_category_loaded, \* what load_category_data returns (a set of rows)
    df_geo_loaded,      \* what load_geographic_data returns (a set of rows)
    date_range,         \* value of the date input: <<>>, <<d>> or <<d1, d2>>
    category_options,   \* options of the category multiselect in the last run
    state_options,      \* options of the state multiselect in the last run
    exchange_options,   \* options of the period multiselect in the last run
    selected_categories,
    selected_states,
    selected_exchange,
    df_category_filtered,   \* df_cat_filtered of the last run
    df_geo_filtered,        \* df_geo_filtered of the last run
    \* ---- dashboard: mart loaders
    pc_load,            \* "off" | "idle" | "rendered" | "crashed"
    marts,              \* the marts dataset: table -> 0 (missing) or its build number
    data_cache,         \* st.cache_data: per loader, the cached return value
    last_run,           \* what the last script run did
    \* ---- orchestration: one run
    pc_orch,            \* "off" | "running" | "done"
    orch_job,           \* the asset job of the run, or "run_full_pipeline"
    skip_bcb,           \* run_full_pipeline(skip_bcb)
    script_pc,          \* position of run_full_pipeline in ScriptSteps
    step_status,        \* per step: "none" (not in the run) | "pending" | "running"
                        \* | "success" | "failed" | "skipped"
    test_report,        \* status the test step reported: "none" | "SUCCESS" | ...
    orch_log,           \* warnings and errors logged by the run
    exit_code,          \* value run_full_pipeline returned (-1: none yet)
    dbt_output,         \* what the dbt test command of the test asset printed
    \* ---- entry points and their environment
    pc_env,             \* "off" | "idle" | "validated" | "connected" | "done" | "fatal"
    environ,            \* the environment variables that are set
    entry_point,        \* the script that was started ("none" before)
    env_error,          \* the exception that ended it ("none" when there is none)
    calls_made,         \* the external calls it has made
    \* ---- schedules and sensors
    pc_sched,           \* "off" | "on": the Dagster daemon
    sched_time,         \* the scheduler's clock, in evaluations
    sensor_status,      \* sensor name -> "STOPPED" | "RUNNING"
    last_tick,          \* the latest tick: its origin and its result
    runs,               \* the runs launched so far, in launch order
    \* ---- ingestion loader
    pc_ing,             \* "off" | "idle" | "loop" | "returned" | "raised"
    source_dir,         \* position in SourceFiles -> the version of the file
    raw_tables,         \* raw table -> the version it holds ("none": no table)
    load_metadata,      \* the rows of _load_metadata
    ing_pos,            \* position of the loop over the files
    ing_log,            \* what the current call did to each CSV file
    ing_calls,          \* calls of load_to_bigquery so far
    \* ---- dashboard: language toggle
    pc_lang,            \* "off" | "loaded" | "rendered"
    show_language,      \* "English" | "Portuguese" | "Both"
    df_named,           \* the loaded category records with both names
    named_selection,    \* selected_categories (English names)
    df_named_filtered,  \* df_cat_filtered of the last run
    category_comparison \* <<display name, period>> -> summed order count

dashVars   == <<pc_dash, df_cat_filtered, category_variance, elasticity_df>>
cohortVars == <<pc_cohort, df_customers, retention_data>>
bcbVars    == <<pc_bcb, variant, series_idx, all_data, requests_made, bcb_log,
                bcb_result, bq_indicators, bq_jobs, clock, series_in, series_out>>
csvVars    == <<pc_csv, csv_dir, bq_tables, csv_queue, csv_attempts, csv_log,
                loaded_tables, total_rows, last_load>>
corrVars   == <<pc_corr, df_cat_with_indicators, monthly_indicators,
                category_correlations>>
filterVars == <<pc_filter, df_category_loaded, df_geo_loaded, date_range,
                category_options, state_options, exchange_options,
                selected_categories, selected_states, selected_exchange,
                df_category_filtered, df_geo_filtered>>
coreVars   == <<dashVars, cohortVars, bcbVars, csvVars>>
loadVars   == <<pc_load, marts, data_cache, last_run>>
orchVars   == <<pc_orch, orch_job, skip_bcb, script_pc, step_status, test_report,
                orch_log, exit_code, dbt_output>>
envVars    == <<pc_env, environ, entry_point, env_error, calls_made>>
schedVars  == <<pc_sched, sched_time, sensor_status, last_tick, runs>>
restVars   == <<corrVars, filterVars, loadVars, orchVars, envVars, schedVars>>
ingVars    == <<pc_ing, source_dir, raw_tables, load_metadata, ing_pos, ing_log, ing_calls>>
langVars   == <<pc_lang, show_language, df_named, named_selection, df_named_filtered,
                category_comparison>>
lateVars   == <<ingVars, langVars>>
vars       == <<coreVars, restVars, lateVars>>

-----------------------------------------------------------------------------
(* Helpers *)

RECURSIVE SeqsUpTo(_, _)
\* All sequences over S of length at most n.
SeqsUpTo(S, n) ==
    IF n = 0 THEN {<<>>}
    ELSE LET shorter == SeqsUpTo(S, n - 1)
         IN  shorter \cup {Append(s, x) : s \in {t \in shorter : Len(t) = n - 1}, x \in S}

RECURSIVE SumSeq(_)
SumSeq(s) == IF s = <<>> THEN 0 ELSE Head(s) + SumSeq(Tail(s))

Range(s) == {s[i] : i \in DOMAIN s}

Abs(n) == IF n < 0 THEN -n ELSE n

RECURSIVE GCD(_, _)
GCD(a, b) == IF b = 0 THEN a ELSE GCD(b, a % b)

-----------------------------------------------------------------------------
(* float64 values as pandas produces them here: a number (an exact         *)
(* fraction in lowest terms), NaN, or an infinity.                         *)

NaN    == [k |-> "nan", n |-> 0, d |-> 0]
PosInf == [k |-> "inf", n |-> 1, d |-> 0]
NegInf == [k |-> "inf", n |-> -1, d |-> 0]

Rat(n, d) ==
    LET g == GCD(Abs(n), Abs(d))
        s == IF d < 0 THEN -1 ELSE 1
    IN  [k |-> "num", n |-> (s * n) \div g, d |-> (s * d) \div g]

Num(i) == Rat(i, 1)

IsNum(x) == x.k = "num"

FSub(x, y) ==
    IF ~IsNum(x) \/ ~IsNum(y) THEN NaN
    ELSE Rat(x.n * y.d - y.n * x.d, x.d * y.d)

FMul(x, y) ==
    IF ~IsNum(x) \/ ~IsNum(y) THEN NaN
    ELSE Rat(x.n * y.n, x.d * y.d)

\* numpy float division: x/0 is +-inf, 0/0 and anything with NaN is NaN.
FDiv(x, y) ==
    IF x.k = "nan" \/ y.k = "nan" THEN NaN
    ELSE IF ~IsNum(x) \/ ~IsNum(y) THEN NaN
    ELSE IF y.n = 0 THEN (IF x.n = 0 THEN NaN ELSE IF x.n > 0 THEN PosInf ELSE NegInf)
    ELSE Rat(x.n * y.d, x.d * y.n)

\* Series.fillna(0)
fillna0(x) == IF x.k = "nan" THEN Num(0) ELSE x

\* Series.replace(0, np.nan)
replace0nan(x) == IF IsNum(x) /\ x.n = 0 THEN NaN ELSE x

-----------------------------------------------------------------------------
(* Dashboard: category economic sensitivity                                *)

MaxCatRows == 3

Categories == {"Electronics", "Toys"}
Periods == {"Strong BRL", "Weak BRL"}
OrderCounts == {0, 1, 100, 150}

CategoryRows ==
    [display_category : Categories, exchange_rate_period : Periods,
     order_count : OrderCounts]

NoVariance ==
    [index |-> {}, columns |-> {}, cell |-> <<>>,
     has_elasticity |-> FALSE, elasticity |-> <<>>]

\* df.groupby(['display_category','exchange_rate_period']).agg({'order_count':'sum'})
\* .reset_index(): one row per key that occurs, with the summed order count.
GroupKeys(df) ==
    {<<df[i].display_category, df[i].exchange_rate_period>> : i \in DOMAIN df}

RECURSIVE GroupSum(_, _)
GroupSum(df, key) ==
    IF df = <<>> THEN 0
    ELSE (IF <<Head(df).display_category, Head(df).exchange_rate_period>> = key
          THEN Head(df).order_count ELSE 0) + GroupSum(Tail(df), key)

category_elasticity(df) == [key \in GroupKeys(df) |-> GroupSum(df, key)]

\* .pivot(index='display_category', columns='exchange_rate_period',
\*        values='order_count').fillna(0)
PivotIndex(ce) == {key[1] : key \in DOMAIN ce}
PivotColumns(ce) == {key[2] : key \in DOMAIN ce}
PivotCell(ce, c, p) ==
    fillna0(IF <<c, p>> \in DOMAIN ce THEN Num(ce[<<c, p>>]) ELSE NaN)

\* Variant of ElasticityDivisor: the zero counts are left in the divisor.
ElasticityDivisorKeepsZero(strong) == strong

\* Variant of Elasticity: the difference taken the other way round.
ElasticityStrongMinusWeak(weak, strong) ==
    fillna0(FDiv(FMul(Num(100), FSub(strong, weak)), replace0nan(strong)))

\* the divisor of the elasticity: the Strong BRL column with 0 replaced by NaN
ElasticityDivisor(strong) == replace0nan(strong)

\* 100 * (weak - strong) / strong.replace(0, np.nan), then .fillna(0)
Elasticity(weak, strong) ==
    fillna0(FDiv(FMul(Num(100), FSub(weak, strong)), ElasticityDivisor(strong)))

ComputeVariance(df) ==
    LET ce   == category_elasticity(df)
        idx  == PivotIndex(ce)
        cols == PivotColumns(ce)
        cell == [c \in idx, p \in cols |-> PivotCell(ce, c, p)]
        both == "Strong BRL" \in cols /\ "Weak BRL" \in cols
    IN  [index |-> idx, columns |-> cols, cell |-> cell,
         has_elasticity |-> both,
         elasticity |-> IF both
                        THEN [c \in idx |-> Elasticity(cell[c, "Weak BRL"],
                                                       cell[c, "Strong BRL"])]
                        ELSE <<>>]

\* the categories in the order of the pivot index (sorted by name)
CategoryOrder ==
    <<"Auto", "Baby", "Books", "Computers", "Cool Stuff", "Electronics", "Fashion",
      "Furniture", "Garden", "Health", "Housewares", "Luggage", "Music", "Perfumery",
      "Pets", "Sports", "Stationery", "Telephony", "Toys", "Watches">>

IndexPosition(c) == CHOOSE i \in DOMAIN CategoryOrder : CategoryOrder[i] = c

\* x < y on numbers (the elasticity column holds no NaN after fillna(0))
FLess(x, y) == x.n * y.d < y.n * x.d

\* Variant of SortsBefore: ascending order.
SortsBeforeAscending(x, y) == FLess(x, y)

\* sort_values('elasticity', ascending=False): the larger value comes first
SortsBefore(x, y) == FLess(y, x)

\* The row that comes first among the categories of S.  Rows with equal
\* values come in index order or in reverse index order (ties).
FirstRow(e, S, ties) ==
    CHOOSE c \in S :
        \A o \in S \ {c} :
            \/ SortsBefore(e[c], e[o])
            \/ /\ e[c] = e[o]
               /\ IF ties = "index order"
                  THEN IndexPosition(c) < IndexPosition(o)
                  ELSE IndexPosition(c) > IndexPosition(o)

RECURSIVE SortValues(_, _, _)
SortValues(e, S, ties) ==
    IF S = {} THEN <<>>
    ELSE LET c == FirstRow(e, S, ties)
         IN  <<[display_category |-> c, elasticity |-> e[c]]>>
                 \o SortValues(e, S \ {c}, ties)

\* .head(15)
TopN == 15
HeadRows(rows) == SubSeq(rows, 1, IF Len(rows) < TopN THEN Len(rows) ELSE TopN)

TieOrders == {"index order", "reverse index order"}

MaxWideCats == 16

\* Frames with one row of 100 orders for each of the first MaxWideCats
\* categories: one or two of them in one period, the others in the other.
WideFrames ==
    {[i \in 1..MaxWideCats |->
        [display_category |-> CategoryOrder[i],
         exchange_rate_period |-> IF i \in few THEN period
                                 ELSE CHOOSE q \in Periods : q # period,
         order_count |-> 100]] :
     few \in {{i, j} : i, j \in 1..MaxWideCats}, period \in Periods}

DashIdle ==
    /\ pc_dash = "off"
    /\ df_cat_filtered = <<>>
    /\ category_variance = NoVariance
    /\ elasticity_df = <<>>

DashInit ==
    /\ pc_dash = "filtered"
    /\ df_cat_filtered \in SeqsUpTo(CategoryRows, MaxCatRows)
    /\ category_variance = NoVariance
    /\ elasticity_df = <<>>

DashInitWide ==
    /\ pc_dash = "filtered"
    /\ df_cat_filtered \in WideFrames
    /\ category_variance = NoVariance
    /\ elasticity_df = <<>>

\* The "Economic Impact" tab: group, pivot, compute the elasticity column,
\* sort it and keep the first rows for the chart.
RenderElasticity ==
    /\ pc_dash = "filtered"
    /\ \E cv \in {ComputeVariance(df_cat_filtered)} :
         /\ category_variance' = cv
         /\ IF cv.has_elasticity
            THEN \E ties \in TieOrders :
                     elasticity_df' = HeadRows(SortValues(cv.elasticity, cv.index, ties))
            ELSE elasticity_df' = <<>>
    /\ pc_dash' = "rendered"
    /\ UNCHANGED <<df_cat_filtered, cohortVars, bcbVars, csvVars, restVars, lateVars>>

-----------------------------------------------------------------------------
(* Dashboard: cohort retention. The block runs on a customer frame that   *)
(* has the columns first_order_date and last_order_date (its guard).       *)

MaxCustomers == 2
LastPeriod == 12

\* A date column value: a calendar date or NaT.
NaT == [nat |-> TRUE, y |-> 0, m |-> 0, d |-> 0]
Date(y, m, d) == [nat |-> FALSE, y |-> y, m |-> m, d |-> d]

OrderDates == {Date(2017, 12, 15), Date(2018, 1, 28), Date(2019, 2, 10), NaT}

CustomerRows == [first_order_date : OrderDates, last_order_date : OrderDates]

\* pd.to_datetime(col).dt.to_period('M'): the month of the date, NaT kept.
NaTPeriod == [nat |-> TRUE, ord |-> 0]
to_period_M(date) ==
    IF date.nat THEN NaTPeriod ELSE [nat |-> FALSE, ord |-> date.y * 12 + (date.m - 1)]

\* (last_order_month - first_order_month).apply(lambda x: x.n if pd.notna(x) else 0)
cohort_periods(row) ==
    LET f == to_period_M(row.first_order_date)
        l == to_period_M(row.last_order_date)
    IN  IF f.nat \/ l.nat THEN 0 ELSE l.ord - f.ord

RECURSIVE UniqueSeq(_, _)
\* Series.unique(): the values in order of first appearance.
UniqueSeq(s, seen) ==
    IF s = <<>> THEN <<>>
    ELSE IF Head(s) \in seen THEN UniqueSeq(Tail(s), seen)
    ELSE <<Head(s)>> \o UniqueSeq(Tail(s), seen \cup {Head(s)})

FirstMonths(df) == [i \in DOMAIN df |-> to_period_M(df[i].first_order_date)]

\* the rows of one cohort
cohort_customers(df, cohort) ==
    LET InCohort(r) == to_period_M(r.first_order_date) = cohort
    IN  SelectSeq(df, InCohort)

\* Variant of Retained: a customer counts only at the offset of its span.
RetainedAtOffset(cc, period) ==
    LET Kept(r) == cohort_periods(r) = period
    IN  Len(SelectSeq(cc, Kept))

\* Variant of Retained: a customer counts only past the offset.
RetainedPastOffset(cc, period) ==
    LET Kept(r) == cohort_periods(r) > period
    IN  Len(SelectSeq(cc, Kept))

\* customers of the cohort counted as retained at the month offset
Retained(cc, period) ==
    LET Kept(r) == cohort_periods(r) >= period
    IN  Len(SelectSeq(cc, Kept))

RetentionRow(df, cohort, period) ==
    LET cc       == cohort_customers(df, cohort)
        total    == Len(cc)
        retained == Retained(cc, period)
    IN  [cohort |-> cohort.ord, period |-> period,
         retention_rate |-> IF total > 0
                            THEN FMul(FDiv(Num(retained), Num(total)), Num(100))
                            ELSE Num(0),
         customers_retained |-> retained]

RECURSIVE RetentionRows(_, _, _)
\* the inner loop: for period in range(0, 13)
RetentionRows(df, cohort, period) ==
    IF period > LastPeriod THEN <<>>
    ELSE <<RetentionRow(df, cohort, period)>> \o RetentionRows(df, cohort, period + 1)

RECURSIVE RetentionData(_, _)
\* the outer loop: for cohort in first_order_month.unique(), NaT skipped
RetentionData(df, cohorts) ==
    IF cohorts = <<>> THEN <<>>
    ELSE (IF Head(cohorts).nat THEN <<>> ELSE RetentionRows(df, Head(cohorts), 0))
         \o RetentionData(df, Tail(cohorts))

CohortIdle ==
    /\ pc_cohort = "off"
    /\ df_customers = <<>>
    /\ retention_data = <<>>

CohortInit ==
    /\ pc_cohort = "loaded"
    /\ df_customers \in SeqsUpTo(CustomerRows, MaxCustomers)
    /\ retention_data = <<>>

\* The cohort block of the "Customer Analytics" tab.
RenderCohortRetention ==
    /\ pc_cohort = "loaded"
    /\ retention_data' = RetentionData(df_customers, UniqueSeq(FirstMonths(df_customers), {}))
    /\ pc_cohort' = "rendered"
    /\ UNCHANGED <<df_customers, dashVars, bcbVars, csvVars, restVars, lateVars>>

-----------------------------------------------------------------------------
(* Economic indicator extractor (BCBExtractor)                             *)

MaxApiRows == 2
MaxRuns == 2

\* SERIES, in dict order, with the series ids.
SERIES == <<"exchange_rate_usd", "ipca", "selic", "igpm", "exchange_commercial">>
SeriesId(series_name) ==
    CASE series_name = "exchange_rate_usd" -> 1
      [] series_name = "ipca" -> 433
      [] series_name = "selic" -> 4189
      [] series_name = "igpm" -> 189
      [] series_name = "exchange_commercial" -> 12

\* A 'data' string of the API, DD/MM/YYYY, as its three numeric fields.
DateStr(dd, mm, yyyy) == [dd |-> dd, mm |-> mm, yyyy |-> yyyy]
DateStrings == {DateStr(1, 1, 2016), DateStr(2, 1, 2016), DateStr(29, 2, 2016),
                DateStr(31, 2, 2016)}
ValorStrings == {"3.25", "abc"}
ApiRows == [data : DateStrings, valor : ValorStrings]

IsLeap(y) == (y % 4 = 0 /\ y % 100 # 0) \/ y % 400 = 0
DaysInMonth(m, y) ==
    IF m = 2 THEN (IF IsLeap(y) THEN 29 ELSE 28)
    ELSE IF m \in {4, 6, 9, 11} THEN 30 ELSE 31

\* Variant of MonthField: the month read from the first field ('%m/%d/%Y').
MonthFieldFromFirst(s) == s.dd

\* The day and month fields as the format '%d/%m/%Y' reads them.
DayField(s) == s.dd
MonthField(s) == s.mm

\* pd.to_datetime(col, format='%d/%m/%Y') on one string: the date, or an error.
DateParses(s) ==
    /\ MonthField(s) \in 1..12
    /\ DayField(s) \in 1..DaysInMonth(MonthField(s), s.yyyy)
to_datetime(s) == Date(s.yyyy, MonthField(s), DayField(s))

\* pd.to_numeric(col, errors='coerce') on one string: the number, or NaN.
to_numeric(v) ==
    CASE v = "3.25" -> Rat(325, 100)
      [] OTHER -> NaN

\* What requests.get(...) / raise_for_status() / response.json() give.
ApiResponse(ok, rows) == [ok |-> ok, rows |-> rows]

NoFrame == [raised |-> FALSE, df |-> <<>>]

\* extract_series: the frame returned, or raised |-> TRUE when the request
\* fails or a date does not parse (to_datetime raises for the whole column).
extract_series(series_name, response, now) ==
    IF ~response.ok THEN [raised |-> TRUE, df |-> <<>>]
    ELSE IF response.rows = <<>> THEN NoFrame
    ELSE IF \E i \in DOMAIN response.rows : ~DateParses(response.rows[i].data)
         THEN [raised |-> TRUE, df |-> <<>>]
    ELSE [raised |-> FALSE,
          df |-> [i \in DOMAIN response.rows |->
                    [data |-> to_datetime(response.rows[i].data),
                     valor |-> to_numeric(response.rows[i].valor),
                     series_name |-> series_name,
                     series_id |-> SeriesId(series_name),
                     extracted_at |-> now]]]

NoSeriesIn == [series_name |-> "", response |-> ApiResponse(FALSE, <<>>)]

\* ---- extract_series alone, on one response

SeriesInit ==
    /\ pc_bcb = "series"
    /\ series_in \in [series_name : Range(SERIES),
                      response : {ApiResponse(FALSE, <<>>)} \cup
                                 {ApiResponse(TRUE, rows) :
                                    rows \in SeqsUpTo(ApiRows, MaxApiRows)}]
    /\ series_out = NoFrame
    /\ variant = "extract" /\ series_idx = 0 /\ all_data = <<>>
    /\ requests_made = <<>> /\ bcb_log = <<>>
    /\ bcb_result = [returned |-> "none", exit_status |-> 0]
    /\ bq_indicators = <<>> /\ bq_jobs = <<>> /\ clock = 1

ExtractSeries ==
    /\ pc_bcb = "series"
    /\ series_out' = extract_series(series_in.series_name, series_in.response, clock)
    /\ pc_bcb' = "series_done"
    /\ UNCHANGED <<variant, series_idx, all_data, requests_made, bcb_log, bcb_result,
                   bq_indicators, bq_jobs, clock, series_in>>
    /\ UNCHANGED <<dashVars, cohortVars, csvVars, restVars, lateVars>>

\* ---- extract_and_load_all and main

\* The sample response of the API and the other answers a run can get.
SampleRows == <<[data |-> DateStr(1, 1, 2016), valor |-> "3.25"],
                [data |-> DateStr(2, 1, 2016), valor |-> "abc"]>>
RunResponses == {ApiResponse(FALSE, <<>>), ApiResponse(TRUE, <<>>),
                 ApiResponse(TRUE, SampleRows),
                 ApiResponse(TRUE, <<[data |-> DateStr(31, 2, 2016), valor |-> "3.25"]>>)}

\* Variant of DefaultWriteDisposition: the load appends.
DefaultWriteDispositionAppend == "WRITE_APPEND"

\* load_to_bigquery's default write_disposition
DefaultWriteDisposition == "WRITE_TRUNCATE"

\* The warehouse's load job: what the table holds once the job is done.
WriteTable(disposition, old, rows) ==
    IF disposition = "WRITE_TRUNCATE" THEN rows ELSE old \o rows

RECURSIVE Concat(_)
\* pd.concat(all_data, ignore_index=True)
Concat(frames) == IF frames = <<>> THEN <<>> ELSE Head(frames) \o Concat(Tail(frames))

BCBIdle ==
    /\ pc_bcb = "off"
    /\ variant = "extract" /\ series_idx = 0 /\ all_data = <<>>
    /\ requests_made = <<>> /\ bcb_log = <<>>
    /\ bcb_result = [returned |-> "none", exit_status |-> 0]
    /\ bq_indicators = <<>> /\ bq_jobs = <<>> /\ clock = 0
    /\ series_in = NoSeriesIn /\ series_out = NoFrame

BCBInit ==
    /\ pc_bcb = "idle"
    /\ variant \in {"extract", "pipeline"}
    /\ series_idx = 0 /\ all_data = <<>>
    /\ requests_made = <<>> /\ bcb_log = <<>>
    /\ bcb_result = [returned |-> "none", exit_status |-> 0]
    /\ bq_indicators = <<>> /\ bq_jobs = <<>> /\ clock = 0
    /\ series_in = NoSeriesIn /\ series_out = NoFrame

\* main() starts: the extractor is built and extract_and_load_all is entered.
StartRun ==
    /\ pc_bcb \in {"idle", "exit"}
    /\ clock < MaxRuns
    /\ clock' = clock + 1
    /\ series_idx' = 1
    /\ all_data' = <<>>
    /\ requests_made' = <<>>
    /\ bcb_log' = <<>>
    /\ pc_bcb' = "fetch"
    /\ UNCHANGED <<variant, bcb_result, bq_indicators, bq_jobs, series_in, series_out>>
    /\ UNCHANGED <<dashVars, cohortVars, csvVars, restVars, lateVars>>

\* Variant of AfterSeriesError: the failed series is tried again.
AfterSeriesErrorRetries(idx) == idx

\* Variant of AfterSeriesError: the first error ends the loop.
AfterSeriesErrorBreaks(idx) == Len(SERIES) + 1

\* What the loop does after a series raised: print and continue.
AfterSeriesError(idx) == idx + 1

\* One iteration of "for series_name in self.SERIES.keys()".
FetchSeries ==
    /\ pc_bcb = "fetch"
    /\ series_idx \in DOMAIN SERIES
    /\ \E response \in RunResponses :
         LET series_name == SERIES[series_idx]
             got == extract_series(series_name, response, clock)
         IN  /\ requests_made' = Append(requests_made,
                    [series_name |-> series_name,
                     outcome |-> IF got.raised THEN "raised"
                                 ELSE IF got.df = <<>> THEN "empty" ELSE "data"])
             /\ IF got.raised
                THEN /\ bcb_log' = Append(bcb_log, <<"Error extracting", series_name>>)
                     /\ all_data' = all_data
                     /\ series_idx' = AfterSeriesError(series_idx)
                ELSE /\ bcb_log' = bcb_log
                     /\ all_data' = IF got.df # <<>> THEN Append(all_data, got.df)
                                    ELSE all_data
                     /\ series_idx' = series_idx + 1
    /\ UNCHANGED <<pc_bcb, variant, bcb_result, bq_indicators, bq_jobs, clock,
                   series_in, series_out>>
    /\ UNCHANGED <<dashVars, cohortVars, csvVars, restVars, lateVars>>

\* main()'s exit status for what extract_and_load_all did:
\*   src/extract/bcb_extractor.py: None is passed over silently, an exception
\*   is not caught; src/pipeline/extract/bcb_extract.py: 1 for None and for an
\*   exception.
MainExit(v, returned) ==
    CASE returned = "df" -> 0
      [] returned = "None" -> IF v = "pipeline" THEN 1 ELSE 0
      [] returned = "raised" -> 1

\* Variant of NothingExtracted: the run goes on to the load whatever it
\* collected.
NothingExtractedNever(frames) == FALSE

\* "if not all_data": no series contributed a frame
NothingExtracted(frames) == frames = <<>>

\* After the loop: nothing collected -> "No data extracted!" and return None;
\* otherwise go on to the load.
AfterLoop ==
    /\ pc_bcb = "fetch"
    /\ series_idx \notin DOMAIN SERIES
    /\ IF NothingExtracted(all_data)
       THEN /\ bcb_log' = Append(bcb_log, <<"No data extracted!", "">>)
            /\ bcb_result' = [returned |-> "None", exit_status |-> MainExit(variant, "None")]
            /\ pc_bcb' = "exit"
       ELSE /\ pc_bcb' = "load"
            /\ UNCHANGED <<bcb_log, bcb_result>>
    /\ UNCHANGED <<variant, series_idx, all_data, requests_made, bq_indicators, bq_jobs,
                   clock, series_in, series_out>>
    /\ UNCHANGED <<dashVars, cohortVars, csvVars, restVars, lateVars>>

\* load_to_bigquery(combined_df, 'bcb_economic_indicators'): the load job
\* either completes, replacing the table, or job.result() raises.
LoadIndicators ==
    /\ pc_bcb = "load"
    /\ \E job_ok \in BOOLEAN :
         LET combined_df == Concat(all_data)
         IN  /\ bq_jobs' = Append(bq_jobs, [run |-> clock, ok |-> job_ok,
                                            disposition |-> DefaultWriteDisposition,
                                            rows |-> Len(combined_df)])
             /\ IF job_ok
                THEN /\ bq_indicators' = WriteTable(DefaultWriteDisposition,
                                                    bq_indicators, combined_df)
                     /\ bcb_result' = [returned |-> "df",
                                       exit_status |-> MainExit(variant, "df")]
                ELSE /\ bq_indicators' = bq_indicators
                     /\ bcb_result' = [returned |-> "raised",
                                       exit_status |-> MainExit(variant, "raised")]
    /\ pc_bcb' = "exit"
    /\ UNCHANGED <<variant, series_idx, all_data, requests_made, bcb_log, clock,
                   series_in, series_out>>
    /\ UNCHANGED <<dashVars, cohortVars, csvVars, restVars, lateVars>>

-----------------------------------------------------------------------------
(* CSV loader (CSVLoader) and the load_single_table script                 *)

MaxFiles == 2

\* Mapping of CSV filenames to BigQuery table names
TABLE_MAPPING ==
    [f \in {"olist_customers_dataset.csv", "olist_geolocation_dataset.csv",
            "olist_order_items_dataset.csv", "olist_order_payments_dataset.csv",
            "olist_order_reviews_dataset.csv", "olist_orders_dataset.csv",
            "olist_products_dataset.csv", "olist_sellers_dataset.csv",
            "product_category_name_translation.csv"} |->
       CASE f = "olist_customers_dataset.csv" -> "public-Customers"
         [] f = "olist_geolocation_dataset.csv" -> "public-Geolocation"
         [] f = "olist_order_items_dataset.csv" -> "public-Order_Items"
         [] f = "olist_order_payments_dataset.csv" -> "public-order_payments"
         [] f = "olist_order_reviews_dataset.csv" -> "public-reviews"
         [] f = "olist_orders_dataset.csv" -> "public-orders"
         [] f = "olist_products_dataset.csv" -> "public-products"
         [] f = "olist_sellers_dataset.csv" -> "public-sellers"
         [] f = "product_category_name_translation.csv" -> "public-product_category"]

TableNames == {TABLE_MAPPING[f] : f \in DOMAIN TABLE_MAPPING}

\* max_bad_records of load_csv_to_bigquery, and the LoadJobConfig default
\* that the load_single_table script is left with.
max_bad_records == 1000
default_max_bad_records == 0

\* The *.csv files data/raw may hold, in the order sorted() gives them.
DirCandidates == <<"olist_order_reviews_dataset.csv", "olist_orders_backup.csv",
                   "olist_orders_dataset.csv", "product_category_name_translation.csv">>

\* What a file holds: its well-formed rows and the number of malformed ones.
FileContents == {[rows |-> <<"r1", "r2">>, bad |-> 0],
                 [rows |-> <<"r3">>, bad |-> 1000],
                 [rows |-> <<"r1">>, bad |-> 1001]}

NoContents == [rows |-> <<>>, bad |-> 0]
NoLoad == [done |-> FALSE, contents |-> NoContents, num_rows |-> 0, repeated |-> FALSE]

\* The record of a completed load of `contents` that left `written` in the table.
CompletedLoad(before, contents, written) ==
    [done |-> TRUE, contents |-> contents, num_rows |-> Len(written),
     repeated |-> before.done /\ before.contents = contents]

\* sorted(glob.glob(os.path.join(csv_dir, '*.csv'))), as basenames
SortedFiles(dir) == LET InDir(f) == f \in DOMAIN dir IN SelectSeq(DirCandidates, InDir)

\* "if filename not in self.TABLE_MAPPING"
NotInMapping(filename) == filename \notin DOMAIN TABLE_MAPPING

\* Variant of CsvWriteDisposition: the load appends.
CsvWriteDispositionAppend == "WRITE_APPEND"

\* write_disposition of the CSV load jobs
CsvWriteDisposition == "WRITE_TRUNCATE"

\* The load job on a file: it fails when the malformed rows exceed the
\* tolerance or for a reason of the warehouse's; otherwise the table holds
\* what the write disposition makes of the file's well-formed rows.
JobSucceeds(contents, tolerance, warehouse_ok) ==
    warehouse_ok /\ contents.bad <= tolerance

\* Variants of AfterSkip and AfterLoadError: the loop is left.
AfterSkipBreaks(queue) == <<>>
AfterLoadErrorBreaks(queue) == <<>>

\* The loop after "continue" in the skip branch and in the except branch.
AfterSkip(queue) == Tail(queue)
AfterLoadError(queue) == Tail(queue)

CSVIdle ==
    /\ pc_csv = "off"
    /\ csv_dir = <<>>
    /\ bq_tables = [t \in TableNames |-> <<>>]
    /\ csv_queue = <<>> /\ csv_attempts = <<>> /\ csv_log = <<>>
    /\ loaded_tables = <<>> /\ total_rows = 0
    /\ last_load = [t \in TableNames |-> NoLoad]

CSVInit ==
    /\ pc_csv = "idle"
    /\ \E names \in SUBSET Range(DirCandidates) :
         /\ Cardinality(names) <= MaxFiles
         /\ csv_dir \in [names -> FileContents]
    /\ bq_tables = [t \in TableNames |-> <<>>]
    /\ csv_queue = <<>> /\ csv_attempts = <<>> /\ csv_log = <<>>
    /\ loaded_tables = <<>> /\ total_rows = 0
    /\ last_load = [t \in TableNames |-> NoLoad]

\* load_all_csvs up to the loop: glob, the empty-directory return, the resets.
StartLoadAll ==
    /\ pc_csv \in {"idle", "done", "script_done"}
    /\ csv_attempts' = <<>>
    /\ loaded_tables' = <<>>
    /\ total_rows' = 0
    /\ IF SortedFiles(csv_dir) = <<>>
       THEN /\ csv_log' = <<<<"No CSV files found", "">>>>
            /\ csv_queue' = <<>>
            /\ pc_csv' = "done"
       ELSE /\ csv_log' = <<>>
            /\ csv_queue' = SortedFiles(csv_dir)
            /\ pc_csv' = "loop"
    /\ UNCHANGED <<csv_dir, bq_tables, last_load>>
    /\ UNCHANGED <<dashVars, cohortVars, bcbVars, restVars, lateVars>>

\* One iteration of "for csv_path in sorted(csv_files)" on an unmapped file.
SkipFile ==
    /\ pc_csv = "loop"
    /\ csv_queue # <<>>
    /\ NotInMapping(Head(csv_queue))
    /\ csv_log' = Append(csv_log, <<"Skipping", Head(csv_queue)>>)
    /\ csv_queue' = AfterSkip(csv_queue)
    /\ UNCHANGED <<pc_csv, csv_dir, bq_tables, csv_attempts, loaded_tables, total_rows,
                   last_load>>
    /\ UNCHANGED <<dashVars, cohortVars, bcbVars, restVars, lateVars>>

\* One iteration on a mapped file: load_csv_to_bigquery inside try/except.
LoadFile ==
    /\ pc_csv = "loop"
    /\ csv_queue # <<>>
    /\ ~NotInMapping(Head(csv_queue))
    /\ \E warehouse_ok \in BOOLEAN :
         LET filename   == Head(csv_queue)
             table_name == TABLE_MAPPING[filename]
             contents   == csv_dir[filename]
             ok         == JobSucceeds(contents, max_bad_records, warehouse_ok)
             written    == WriteTable(CsvWriteDisposition, bq_tables[table_name],
                                      contents.rows)
         IN  /\ csv_attempts' = Append(csv_attempts,
                    [file |-> filename, table |-> table_name, ok |-> ok,
                     num_rows |-> IF ok THEN Len(written) ELSE 0])
             /\ IF ok
                THEN /\ bq_tables' = [bq_tables EXCEPT ![table_name] = written]
                     /\ last_load' = [last_load EXCEPT ![table_name] =
                                         CompletedLoad(@, contents, written)]
                     /\ total_rows' = total_rows + Len(written)
                     /\ loaded_tables' = Append(loaded_tables, table_name)
                     /\ csv_log' = csv_log
                     /\ csv_queue' = Tail(csv_queue)
                ELSE /\ csv_log' = Append(csv_log, <<"Error loading", filename>>)
                     /\ csv_queue' = AfterLoadError(csv_queue)
                     /\ UNCHANGED <<bq_tables, last_load, total_rows, loaded_tables>>
    /\ UNCHANGED <<pc_csv, csv_dir>>
    /\ UNCHANGED <<dashVars, cohortVars, bcbVars, restVars, lateVars>>

\* After the loop: the summary is printed.
FinishLoadAll ==
    /\ pc_csv = "loop"
    /\ csv_queue = <<>>
    /\ csv_log' = Append(csv_log, <<"Summary", "">>)
    /\ pc_csv' = "done"
    /\ UNCHANGED <<csv_dir, bq_tables, csv_queue, csv_attempts, loaded_tables,
                   total_rows, last_load>>
    /\ UNCHANGED <<dashVars, cohortVars, bcbVars, restVars, lateVars>>

\* scripts/load_single_table.py: the reviews file into public-reviews.
\* Without the file open() raises and nothing is loaded.
LoadSingleTable ==
    /\ pc_csv \in {"idle", "done", "script_done"}
    /\ \E warehouse_ok \in BOOLEAN :
         LET filename   == "olist_order_reviews_dataset.csv"
             table_name == "public-reviews"
         IN  IF filename \in DOMAIN csv_dir
                /\ JobSucceeds(csv_dir[filename], default_max_bad_records, warehouse_ok)
             THEN LET written == WriteTable(CsvWriteDisposition, bq_tables[table_name],
                                            csv_dir[filename].rows)
                  IN  /\ bq_tables' = [bq_tables EXCEPT ![table_name] = written]
                      /\ last_load' = [last_load EXCEPT ![table_name] =
                                          CompletedLoad(@, csv_dir[filename], written)]
             ELSE UNCHANGED <<bq_tables, last_load>>
    /\ pc_csv' = "script_done"
    /\ UNCHANGED <<csv_dir, csv_queue, csv_attempts, csv_log, loaded_tables, total_rows>>
    /\ UNCHANGED <<dashVars, cohortVars, bcbVars, restVars, lateVars>>

\* Between runs the files of data/raw may be replaced by a new download.
ReplaceFile ==
    /\ pc_csv \in {"idle", "done", "script_done"}
    /\ \E f \in DOMAIN csv_dir, c \in FileContents :
         /\ c # csv_dir[f]
         /\ csv_dir' = [csv_dir EXCEPT ![f] = c]
    /\ UNCHANGED <<pc_csv, bq_tables, csv_queue, csv_attempts, csv_log, loaded_tables,
                   total_rows, last_load>>
    /\ UNCHANGED <<dashVars, cohortVars, bcbVars, restVars, lateVars>>

-----------------------------------------------------------------------------
(* Specifications                                                          *)

-----------------------------------------------------------------------------
(* Dashboard: multi-indicator sensitivity. The filtered category records   *)
(* are a set of rows (one per category and month, with a sample revenue);  *)
(* monthly_indicators is the frame of monthly indicator means, which may   *)
(* lack a month or hold NaN in a column.                                   *)

MaxMonths == 4
Months == 1..MaxMonths

\* total_revenue_usd of the sample row of a category in a month
SampleRevenue(c, m) == IF c = "Electronics" THEN 10 * m ELSE 10 * (MaxMonths + 1 - m)

CorrRows ==
    {[display_category |-> c, order_month |-> m,
      total_revenue_usd |-> SampleRevenue(c, m)] : c \in Categories, m \in Months}

NoIndicators ==
    [present |-> FALSE, avg_exchange_rate |-> NaN, inflation_rate |-> NaN,
     interest_rate |-> NaN]

\* what monthly_indicators can hold for a month: no row, a row without an
\* inflation value, a complete row
IndicatorKinds == {"none", "no_inflation", "complete"}
IndicatorRow(m, kind) ==
    IF kind = "none" THEN NoIndicators
    ELSE [present |-> TRUE, avg_exchange_rate |-> Num(m),
          inflation_rate |-> IF kind = "complete" THEN Num(6) ELSE NaN,
          interest_rate |-> Num((m * m) % 3)]

RECURSIVE SumOver(_, _)
\* the sum of f[x] over the x of S
SumOver(f, S) ==
    IF S = {} THEN 0
    ELSE LET x == CHOOSE y \in S : TRUE IN f[x] + SumOver(f, S \ {x})

\* df[df['display_category'] == category].groupby('order_month')
\*     .agg({'total_revenue_usd': 'sum'}): one row per month of the category
cat_data(df, category) ==
    LET rows == {r \in df : r.display_category = category}
        months == {r.order_month : r \in rows}
        RevOf(m) ==
            LET rs == {r \in rows : r.order_month = m}
            IN  SumOver([r \in rs |-> r.total_revenue_usd], rs)
    IN  [m \in months |-> RevOf(m)]

\* cat_data.merge(monthly_indicators[...], on='order_month', how='left').dropna():
\* the months of cat_data whose indicator row exists and has no NaN
merged(cd, mi) ==
    {m \in DOMAIN cd :
        /\ mi[m].present
        /\ IsNum(mi[m].avg_exchange_rate)
        /\ IsNum(mi[m].inflation_rate)
        /\ IsNum(mi[m].interest_rate)}

NaNCorr == [k |-> "nan", sign |-> 0, sq |-> NaN]

\* Series.corr (Pearson) of x and y over the rows S, as its sign and its
\* square; NaN when one of the two columns is constant.
Pearson(x, y, S) ==
    LET n   == Cardinality(S)
        sx  == SumOver(x, S)
        sy  == SumOver(y, S)
        sxy == SumOver([m \in S |-> x[m] * y[m]], S)
        sxx == SumOver([m \in S |-> x[m] * x[m]], S)
        syy == SumOver([m \in S |-> y[m] * y[m]], S)
        cov == n * sxy - sx * sy
        vx  == n * sxx - sx * sx
        vy  == n * syy - sy * sy
    IN  IF vx = 0 \/ vy = 0 THEN NaNCorr
        ELSE [k |-> "num",
              sign |-> IF cov > 0 THEN 1 ELSE IF cov < 0 THEN -1 ELSE 0,
              sq |-> Rat(cov * cov, vx * vy)]

\* Variant of HasEnoughMerged: no minimum after the join.
HasEnoughMergedAlways(mg) == TRUE

\* if len(cat_data) > 3
HasEnoughMonths(cd) == Cardinality(DOMAIN cd) > 3

\* if len(merged) > 2
HasEnoughMerged(mg) == Cardinality(mg) > 2

\* the dictionary appended for a category
CorrelationRow(category, cd, mi, mg) ==
    [category |-> category,
     exchange_rate_corr |->
         Pearson(cd, [m \in mg |-> mi[m].avg_exchange_rate.n], mg),
     inflation_corr |->
         Pearson(cd, [m \in mg |-> mi[m].inflation_rate.n], mg),
     interest_rate_corr |->
         Pearson(cd, [m \in mg |-> mi[m].interest_rate.n], mg)]

\* the loop over df_cat_with_indicators['display_category'].unique()
CategoryCorrelations(df, mi) ==
    LET cats == {r.display_category : r \in df}
        Appended(c) ==
            /\ HasEnoughMonths(cat_data(df, c))
            /\ HasEnoughMerged(merged(cat_data(df, c), mi))
    IN  {CorrelationRow(c, cat_data(df, c), mi, merged(cat_data(df, c), mi)) :
            c \in {d \in cats : Appended(d)}}

CorrIdle ==
    /\ pc_corr = "off"
    /\ df_cat_with_indicators = {}
    /\ monthly_indicators = [m \in Months |-> NoIndicators]
    /\ category_correlations = {}

CorrInit ==
    /\ pc_corr = "filtered"
    /\ df_cat_with_indicators \in SUBSET CorrRows
    /\ \E kinds \in [Months -> IndicatorKinds] :
           monthly_indicators = [m \in Months |-> IndicatorRow(m, kinds[m])]
    /\ category_correlations = {}

\* The "Multi-Indicator Sensitivity Analysis" block of the Economic Impact tab.
RenderCorrelations ==
    /\ pc_corr = "filtered"
    /\ category_correlations' =
           CategoryCorrelations(df_cat_with_indicators, monthly_indicators)
    /\ pc_corr' = "rendered"
    /\ UNCHANGED <<df_cat_with_indicators, monthly_indicators, coreVars, filterVars,
                   loadVars, orchVars, envVars, schedVars, lateVars>>

-----------------------------------------------------------------------------
(* Dashboard: sidebar filters. Every interaction reruns main from the      *)
(* cached frames; a widget keeps the value the user gave it as long as its *)
(* options are the same as in the run before, and falls back to its        *)
(* default when they changed. Frames are sets of rows.                     *)

MaxMartRows == 2
MaxGeoRows == 1

MartMonths == {1, 2}

CategoryMartRows ==
    [category_name : Categories, order_month : MartMonths,
     exchange_rate_period : Periods]
\* sample rows of the geographic mart: each state, category and month occurs
GeoMartRows ==
    {[customer_state |-> "SP", category_name |-> "Electronics", order_month |-> 1],
     [customer_state |-> "SP", category_name |-> "Toys", order_month |-> 2],
     [customer_state |-> "RJ", category_name |-> "Electronics", order_month |-> 2],
     [customer_state |-> "RJ", category_name |-> "Toys", order_month |-> 1]}

FramesUpTo(rows, n) == {f \in SUBSET rows : Cardinality(f) <= n}

SetMin(S) == CHOOSE x \in S : \A y \in S : x <= y
SetMax(S) == CHOOSE x \in S : \A y \in S : x >= y

\* value=(min_date, max_date), shown only when df_category is not empty
DefaultDateRange(df) ==
    IF df = {} THEN <<>>
    ELSE <<SetMin({r.order_month : r \in df}), SetMax({r.order_month : r \in df})>>

\* what the user can set the date input to: one endpoint, or two in order,
\* between min_value and max_value
DateRanges(df) ==
    IF df = {} THEN {<<>>}
    ELSE LET lo == SetMin({r.order_month : r \in df})
             hi == SetMax({r.order_month : r \in df})
             pairs == (lo..hi) \X (lo..hi)
         IN  {<<a>> : a \in lo..hi} \cup {p \in pairs : p[1] <= p[2]}

\* if len(date_range) == 2: the rows with date_range[0] <= order_month <= date_range[1]
ApplyDateFilter(df, range) ==
    IF Len(range) = 2
    THEN {r \in df : r.order_month >= range[1] /\ r.order_month <= range[2]}
    ELSE df

\* Variant of FrameAtRerun: the run goes on from the frame it showed last.
FrameAtRerunShown(loaded, shown) == shown

\* df_category = load_category_data(): each run starts from the cached frame
FrameAtRerun(loaded, shown) == loaded

\* value a multiselect returns in a rerun
WidgetValue(options, previous_options, value) ==
    IF options = previous_options THEN value ELSE options

\* One run of main from the filters down to the two filtered frames, given
\* the frames the run starts from, the value of the date input, the options
\* the multiselects had in the run before and the values the user gave them.
FilterRun(loaded_c, loaded_g, range, prev, value) ==
    LET dated    == loaded_c # {}
        df_category == IF dated THEN ApplyDateFilter(loaded_c, range) ELSE loaded_c
        df_geo      == IF dated THEN ApplyDateFilter(loaded_g, range) ELSE loaded_g
        categories  == {r.category_name : r \in df_category}
        states      == {r.customer_state : r \in df_geo}
        exchange_periods == {r.exchange_rate_period : r \in df_category}
        sel_c == WidgetValue(categories, prev.categories, value.categories)
        sel_s == WidgetValue(states, prev.states, value.states)
        sel_e == WidgetValue(exchange_periods, prev.periods, value.periods)
    IN  [categories |-> categories, states |-> states, periods |-> exchange_periods,
         selected_categories |-> sel_c, selected_states |-> sel_s,
         selected_exchange |-> sel_e,
         df_cat_filtered |->
             {r \in df_category : r.category_name \in sel_c
                                  /\ r.exchange_rate_period \in sel_e},
         df_geo_filtered |->
             {r \in df_geo : r.customer_state \in sel_s /\ r.category_name \in sel_c}]

NoSelection == [categories |-> {}, states |-> {}, periods |-> {}]

\* A rerun of main after an interaction.
RunFilters(range, cats, states, periods) ==
    LET run == FilterRun(FrameAtRerun(df_category_loaded, df_category_filtered),
                         FrameAtRerun(df_geo_loaded, df_geo_filtered),
                         range,
                         [categories |-> category_options, states |-> state_options,
                          periods |-> exchange_options],
                         [categories |-> cats, states |-> states, periods |-> periods])
    IN  /\ date_range' = range
        /\ category_options' = run.categories
        /\ state_options' = run.states
        /\ exchange_options' = run.periods
        /\ selected_categories' = run.selected_categories
        /\ selected_states' = run.selected_states
        /\ selected_exchange' = run.selected_exchange
        /\ df_category_filtered' = run.df_cat_filtered
        /\ df_geo_filtered' = run.df_geo_filtered

FilterIdle ==
    /\ pc_filter = "off"
    /\ df_category_loaded = {} /\ df_geo_loaded = {}
    /\ date_range = <<>>
    /\ category_options = {} /\ state_options = {} /\ exchange_options = {}
    /\ selected_categories = {} /\ selected_states = {} /\ selected_exchange = {}
    /\ df_category_filtered = {} /\ df_geo_filtered = {}

\* the first run of a session: every widget at its default
FilterInit ==
    /\ pc_filter = "shown"
    /\ df_category_loaded \in FramesUpTo(CategoryMartRows, MaxMartRows)
    /\ df_geo_loaded \in FramesUpTo(GeoMartRows, MaxGeoRows)
    /\ date_range = DefaultDateRange(df_category_loaded)
    /\ LET run == FilterRun(df_category_loaded, df_geo_loaded, date_range,
                            NoSelection, NoSelection)
       IN  /\ category_options = run.categories
           /\ state_options = run.states
           /\ exchange_options = run.periods
           /\ selected_categories = run.selected_categories
           /\ selected_states = run.selected_states
           /\ selected_exchange = run.selected_exchange
           /\ df_category_filtered = run.df_cat_filtered
           /\ df_geo_filtered = run.df_geo_filtered

ChangeDateRange ==
    /\ pc_filter = "shown"
    /\ \E range \in DateRanges(df_category_loaded) :
         /\ range # date_range
         /\ RunFilters(range, selected_categories, selected_states, selected_exchange)
    /\ UNCHANGED <<pc_filter, df_category_loaded, df_geo_loaded, coreVars, corrVars,
                   loadVars, orchVars, envVars, schedVars, lateVars>>

ChangeCategories ==
    /\ pc_filter = "shown"
    /\ \E cats \in SUBSET category_options :
         /\ cats # selected_categories
         /\ RunFilters(date_range, cats, selected_states, selected_exchange)
    /\ UNCHANGED <<pc_filter, df_category_loaded, df_geo_loaded, coreVars, corrVars,
                   loadVars, orchVars, envVars, schedVars, lateVars>>

ChangeStates ==
    /\ pc_filter = "shown"
    /\ \E states \in SUBSET state_options :
         /\ states # selected_states
         /\ RunFilters(date_range, selected_categories, states, selected_exchange)
    /\ UNCHANGED <<pc_filter, df_category_loaded, df_geo_loaded, coreVars, corrVars,
                   loadVars, orchVars, envVars, schedVars, lateVars>>

ChangeExchange ==
    /\ pc_filter = "shown"
    /\ \E periods \in SUBSET exchange_options :
         /\ periods # selected_exchange
         /\ RunFilters(date_range, selected_categories, selected_states, periods)
    /\ UNCHANGED <<pc_filter, df_category_loaded, df_geo_loaded, coreVars, corrVars,
                   loadVars, orchVars, envVars, schedVars, lateVars>>

-----------------------------------------------------------------------------
(* Dashboard: the five cached loaders of main. A script run (the first     *)
(* load, a filter change, a tab view) calls them in order; dbt builds the  *)
(* marts independently of the dashboard.                                   *)

MaxBuilds == 1

\* the marts, in the order main loads them
MartTables ==
    <<"fct_category_performance_economics", "fct_geographic_sales_economics",
      "fct_time_series_daily", "fct_product_performance", "fct_customer_segments">>
MartNames == Range(MartTables)

Interactions == {"data load", "filter change", "tab view"}

\* the loaders whose query is inside try/except
CatchesQueryError(t) ==
    t \in {"fct_time_series_daily", "fct_product_performance", "fct_customer_segments"}

\* st.warning(...): "... not available yet. Build the mart with: dbt run --select <t>"
RemediationMessage(t) == <<"not available yet. Build the mart with: dbt run --select", t>>

NotCached == [cached |-> FALSE, build |-> 0, warned |-> FALSE]

\* Variant of AfterQuery: the query drops the table it reads.
AfterQueryDropsTable(m, t) == [m EXCEPT ![t] = 0]

\* the dataset after client.query(SELECT ... FROM t)
AfterQuery(m, t) == m

\* One loader call: the cached value when there is one; else the query, which
\* raises when the table is missing. [raised] is an exception leaving the
\* loader; [entry] is what st.cache_data holds afterwards.
CallLoader(t, m, entry) ==
    IF entry.cached
    THEN [raised |-> FALSE, failed |-> entry.warned, warned |-> entry.warned,
          entry |-> entry, marts |-> m]
    ELSE IF m[t] = 0
    THEN IF CatchesQueryError(t)
         THEN [raised |-> FALSE, failed |-> TRUE, warned |-> TRUE,
               entry |-> [cached |-> TRUE, build |-> 0, warned |-> TRUE],
               marts |-> AfterQuery(m, t)]
         ELSE [raised |-> TRUE, failed |-> TRUE, warned |-> FALSE,
               entry |-> entry, marts |-> AfterQuery(m, t)]
    ELSE [raised |-> FALSE, failed |-> FALSE, warned |-> FALSE,
          entry |-> [cached |-> TRUE, build |-> m[t], warned |-> FALSE],
          marts |-> AfterQuery(m, t)]

NoRun == [interaction |-> "data load", called |-> {}, failed |-> {}, warnings |-> {},
          crashed |-> FALSE]

RECURSIVE LoadFrom(_, _)
\* the loader calls of main from the i-th on; an exception ends the script run
LoadFrom(i, st) ==
    IF i > Len(MartTables) THEN st
    ELSE LET t == MartTables[i]
             r == CallLoader(t, st.marts, st.cache[t])
             run == [st.run EXCEPT
                        !.called = @ \cup {t},
                        !.failed = IF r.failed THEN @ \cup {t} ELSE @,
                        !.warnings = IF r.warned THEN @ \cup {RemediationMessage(t)} ELSE @,
                        !.crashed = r.raised]
             next == [marts |-> r.marts, cache |-> [st.cache EXCEPT ![t] = r.entry],
                      run |-> run]
         IN  IF r.raised THEN next ELSE LoadFrom(i + 1, next)

LoadIdle ==
    /\ pc_load = "off"
    /\ marts = [t \in MartNames |-> 0]
    /\ data_cache = [t \in MartNames |-> NotCached]
    /\ last_run = NoRun

LoadInit ==
    /\ pc_load = "idle"
    /\ marts \in [MartNames -> {0, 1}]
    /\ data_cache = [t \in MartNames |-> NotCached]
    /\ last_run = NoRun

\* One script run of the dashboard, started by any interaction.
RunDashboard ==
    /\ pc_load \in {"idle", "rendered", "crashed"}
    /\ \E interaction \in Interactions :
         LET st == LoadFrom(1, [marts |-> marts, cache |-> data_cache,
                                run |-> [NoRun EXCEPT !.interaction = interaction]])
         IN  /\ marts' = st.marts
             /\ data_cache' = st.cache
             /\ last_run' = st.run
             /\ pc_load' = IF st.run.crashed THEN "crashed" ELSE "rendered"
    /\ UNCHANGED <<coreVars, corrVars, filterVars, orchVars, envVars, schedVars, lateVars>>

\* ttl=3600: a cached value is dropped
CacheExpires ==
    /\ pc_load \in {"rendered", "crashed"}
    /\ \E t \in MartNames :
         /\ data_cache[t].cached
         /\ data_cache' = [data_cache EXCEPT ![t] = NotCached]
    /\ UNCHANGED <<pc_load, marts, last_run, coreVars, corrVars, filterVars, orchVars,
                   envVars, schedVars, lateVars>>

\* dbt run --select t: the mart is built (again)
DbtRun ==
    /\ pc_load \in {"idle", "rendered", "crashed"}
    /\ \E t \in MartNames :
         /\ marts[t] < MaxBuilds
         /\ marts' = [marts EXCEPT ![t] = @ + 1]
    /\ UNCHANGED <<pc_load, data_cache, last_run, coreVars, corrVars, filterVars,
                   orchVars, envVars, schedVars, lateVars>>

-----------------------------------------------------------------------------
(* Orchestration: one run. An asset job executes the assets of its         *)
(* selection; an asset starts when the assets it depends on that are in    *)
(* the run have succeeded and is skipped when one of them failed or was    *)
(* skipped. run_full_pipeline executes its steps one after the other.      *)

AssetNames ==
    {"bcb_economic_indicators", "postgres_sales_data", "dbt_staging_models",
     "dbt_mart_models", "dbt_data_quality_tests", "streamlit_cache_refresh",
     "pipeline_execution_report",
     "kaggle_dataset", "gcs_raw_data", "bigquery_raw_tables"}

\* deps=[...] of each asset
AssetDeps(a) ==
    CASE a = "dbt_staging_models" -> {"bcb_economic_indicators", "postgres_sales_data"}
      [] a = "dbt_mart_models" -> {"dbt_staging_models"}
      [] a = "dbt_data_quality_tests" -> {"dbt_mart_models"}
      [] a = "streamlit_cache_refresh" -> {"dbt_data_quality_tests"}
      [] a = "pipeline_execution_report" -> {"streamlit_cache_refresh"}
      [] a = "gcs_raw_data" -> {"kaggle_dataset"}
      [] a = "bigquery_raw_tables" -> {"gcs_raw_data", "kaggle_dataset"}
      [] OTHER -> {}

AssetJobs ==
    {"daily_full_pipeline", "economic_update_pipeline", "quality_check_pipeline",
     "sales_refresh_pipeline", "streamlit_only_refresh", "daily_pipeline_job"}

\* selection=... of each asset job
JobSelection(job) ==
    CASE job = "daily_full_pipeline" ->
             {"bcb_economic_indicators", "postgres_sales_data", "dbt_staging_models",
              "dbt_mart_models", "dbt_data_quality_tests", "streamlit_cache_refresh",
              "pipeline_execution_report"}
      [] job = "economic_update_pipeline" ->
             {"bcb_economic_indicators", "dbt_staging_models", "dbt_mart_models",
              "dbt_data_quality_tests", "streamlit_cache_refresh"}
      [] job = "quality_check_pipeline" -> {"dbt_data_quality_tests"}
      [] job = "sales_refresh_pipeline" ->
             {"postgres_sales_data", "dbt_staging_models", "dbt_mart_models",
              "dbt_data_quality_tests"}
      [] job = "streamlit_only_refresh" -> {"streamlit_cache_refresh"}
      [] job = "daily_pipeline_job" ->
             {"kaggle_dataset", "gcs_raw_data", "bigquery_raw_tables"}
      [] OTHER -> {}

\* the steps of run_full_pipeline, in order
ScriptSteps ==
    <<"extract_kaggle", "extract_bcb", "load_to_bigquery", "dbt_deps", "dbt_run",
      "dbt_test", "validate_pipeline", "print_summary">>

StepNames == AssetNames \cup Range(ScriptSteps)

\* Variant of RaisesOnFailure: every failed command raises.
RaisesOnFailureAny(step) == step # "print_summary"

\* the steps whose failure raises out of run_full_pipeline's try block
RaisesOnFailure(step) == step \in {"extract_kaggle", "load_to_bigquery", "dbt_run"}

TestStatuses == {"SUCCESS", "WARNING", "FAILED"}

\* What dbt test prints: with a summary line "Done. PASS=. WARN=. ERROR=.
\* SKIP=. TOTAL=." when it ran the tests, without one when the command ended
\* before (no profile, no connection, a model that does not compile).
NoDbtOutput == [summary |-> FALSE, passed |-> 0, warned |-> 0, errors |-> 0, skipped |-> 0]

DbtOutputs ==
    {NoDbtOutput} \cup
    [summary : {TRUE}, passed : 0..1, warned : 0..1, errors : 0..1, skipped : 0..1]

\* test_stats: zeros unless a summary line is found
TestStats(out) ==
    IF out.summary
    THEN [passed |-> out.passed, warned |-> out.warned, errors |-> out.errors,
          total |-> out.passed + out.warned + out.errors + out.skipped]
    ELSE [passed |-> 0, warned |-> 0, errors |-> 0, total |-> 0]

\* the status dbt_data_quality_tests derives from test_stats
TestStatus(stats) ==
    IF stats.errors > 0 THEN "FAILED"
    ELSE IF stats.warned > 0 THEN "WARNING"
    ELSE "SUCCESS"

\* Variant of ReadyToStart: an asset starts whatever the state of its deps.
ReadyToStartAlways(a, status) == TRUE

\* Variant of TestStepOutcome: reported errors fail the step.
TestStepOutcomeGates(report) == IF report = "FAILED" THEN "failed" ELSE "success"

\* an asset of the run may start: its deps in the run have succeeded
ReadyToStart(a, status) ==
    \A d \in AssetDeps(a) : status[d] \in {"none", "success"}

\* an asset of the run is skipped: a dep in the run failed or was skipped
UpstreamFailed(a, status) ==
    \E d \in AssetDeps(a) : status[d] \in {"failed", "skipped"}

\* dbt_data_quality_tests runs dbt test without check=True and returns an
\* Output whatever status it computed
TestStepOutcome(report) == "success"

\* what dbt_data_quality_tests logs for a status
TestLog(report) ==
    IF report = "FAILED" THEN {"Data quality tests FAILED"}
    ELSE IF report = "WARNING" THEN {"Data quality tests completed with warnings"}
    ELSE {}

OrchIdle ==
    /\ pc_orch = "off"
    /\ orch_job = "none"
    /\ skip_bcb = FALSE
    /\ script_pc = 1
    /\ step_status = [a \in StepNames |-> "none"]
    /\ test_report = "none"
    /\ orch_log = {}
    /\ exit_code = -1
    /\ dbt_output = NoDbtOutput

\* a run of an asset job, or of run_full_pipeline, has been launched
OrchInit ==
    /\ pc_orch = "running"
    /\ script_pc = 1
    /\ test_report = "none"
    /\ orch_log = {}
    /\ exit_code = -1
    /\ dbt_output = NoDbtOutput
    /\ \/ /\ orch_job \in AssetJobs
          /\ skip_bcb = FALSE
          /\ step_status = [a \in StepNames |->
                               IF a \in JobSelection(orch_job) THEN "pending" ELSE "none"]
       \/ /\ orch_job = "run_full_pipeline"
          /\ skip_bcb \in BOOLEAN
          /\ step_status = [a \in StepNames |->
                               IF a \in Range(ScriptSteps) /\ ~(a = "extract_bcb" /\ skip_bcb)
                               THEN "pending" ELSE "none"]

StartStep ==
    /\ pc_orch = "running" /\ orch_job \in AssetJobs
    /\ \E a \in AssetNames :
         /\ step_status[a] = "pending"
         /\ ReadyToStart(a, step_status)
         /\ step_status' = [step_status EXCEPT ![a] = "running"]
    /\ UNCHANGED <<pc_orch, orch_job, skip_bcb, script_pc, test_report, orch_log, exit_code,
                   dbt_output>>
    /\ UNCHANGED <<coreVars, corrVars, filterVars, loadVars, envVars, schedVars, lateVars>>

SkipStep ==
    /\ pc_orch = "running" /\ orch_job \in AssetJobs
    /\ \E a \in AssetNames :
         /\ step_status[a] = "pending"
         /\ UpstreamFailed(a, step_status)
         /\ step_status' = [step_status EXCEPT ![a] = "skipped"]
    /\ UNCHANGED <<pc_orch, orch_job, skip_bcb, script_pc, test_report, orch_log, exit_code,
                   dbt_output>>
    /\ UNCHANGED <<coreVars, corrVars, filterVars, loadVars, envVars, schedVars, lateVars>>

\* An asset function returns its Output or raises.
FinishStep ==
    /\ pc_orch = "running" /\ orch_job \in AssetJobs
    /\ \E a \in AssetNames :
         /\ step_status[a] = "running"
         /\ IF a = "dbt_data_quality_tests"
            THEN \E out \in DbtOutputs, report \in TestStatuses :
                    /\ report = TestStatus(TestStats(out))
                    /\ dbt_output' = out
                    /\ step_status' = [step_status EXCEPT ![a] = TestStepOutcome(report)]
                    /\ test_report' = report
                    /\ orch_log' = orch_log \cup TestLog(report)
            ELSE /\ \E outcome \in {"success", "failed"} :
                       step_status' = [step_status EXCEPT ![a] = outcome]
                 /\ UNCHANGED <<test_report, orch_log, dbt_output>>
    /\ UNCHANGED <<pc_orch, orch_job, skip_bcb, script_pc, exit_code>>
    /\ UNCHANGED <<coreVars, corrVars, filterVars, loadVars, envVars, schedVars, lateVars>>

FinishRun ==
    /\ pc_orch = "running" /\ orch_job \in AssetJobs
    /\ \A a \in AssetNames : step_status[a] \notin {"pending", "running"}
    /\ pc_orch' = "done"
    /\ UNCHANGED <<orch_job, skip_bcb, script_pc, step_status, test_report, orch_log,
                   exit_code, dbt_output>>
    /\ UNCHANGED <<coreVars, corrVars, filterVars, loadVars, envVars, schedVars, lateVars>>

\* the position after step i of run_full_pipeline
NextScriptPc(i, skip) ==
    IF i + 1 <= Len(ScriptSteps) /\ ScriptSteps[i + 1] = "extract_bcb" /\ skip
    THEN i + 2 ELSE i + 1

\* what a step logs when its command fails
FailureLog(step) ==
    CASE step = "extract_kaggle" -> {"Kaggle data extraction failed", "Pipeline failed"}
      [] step = "extract_bcb" -> {"BCB economic data extraction failed (continuing...)"}
      [] step = "load_to_bigquery" -> {"Data load to BigQuery failed", "Pipeline failed"}
      [] step = "dbt_run" -> {"dbt transformations failed", "Pipeline failed"}
      [] step = "dbt_test" -> {"dbt tests had failures (check output above)"}
      [] step = "validate_pipeline" -> {"Data validation had warnings"}
      [] OTHER -> {}

\* One step of run_full_pipeline: its command succeeds or fails; a failure
\* that raises goes to the except branch (summary, return 1).
RunScriptStep ==
    /\ pc_orch = "running" /\ orch_job = "run_full_pipeline"
    /\ script_pc <= Len(ScriptSteps)
    /\ LET step == ScriptSteps[script_pc]
       IN  \E ok \in BOOLEAN :
             /\ (step = "print_summary") => ok
             /\ IF ok
                THEN /\ step_status' = [step_status EXCEPT ![step] = "success"]
                     /\ orch_log' = orch_log
                     /\ test_report' = IF step = "dbt_test" THEN "SUCCESS" ELSE test_report
                     /\ script_pc' = NextScriptPc(script_pc, skip_bcb)
                     /\ pc_orch' = IF step = "print_summary" THEN "done" ELSE "running"
                     /\ exit_code' = IF step = "print_summary" THEN 0 ELSE exit_code
                ELSE IF RaisesOnFailure(step)
                THEN /\ step_status' = [step_status EXCEPT ![step] = "failed",
                                                           !["print_summary"] = "success"]
                     /\ orch_log' = orch_log \cup FailureLog(step)
                     /\ test_report' = test_report
                     /\ script_pc' = Len(ScriptSteps) + 1
                     /\ pc_orch' = "done"
                     /\ exit_code' = 1
                ELSE /\ step_status' = [step_status EXCEPT ![step] = "failed"]
                     /\ orch_log' = orch_log \cup FailureLog(step)
                     /\ test_report' = IF step = "dbt_test" THEN "FAILED" ELSE test_report
                     /\ script_pc' = NextScriptPc(script_pc, skip_bcb)
                     /\ pc_orch' = "running"
                     /\ exit_code' = exit_code
    /\ UNCHANGED <<orch_job, skip_bcb, dbt_output>>
    /\ UNCHANGED <<coreVars, corrVars, filterVars, loadVars, envVars, schedVars, lateVars>>

-----------------------------------------------------------------------------
(* Entry points: what each script does between its start and its first     *)
(* external call, under an environment in which variables may be unset.    *)

EnvNames ==
    {"GCP_PROJECT_ID", "GOOGLE_APPLICATION_CREDENTIALS", "BQ_DATASET_RAW",
     "KAGGLE_USERNAME", "KAGGLE_KEY"}

EntryPoints ==
    {"extract/bcb_extractor.py", "pipeline/extract/bcb_extract.py",
     "extract/csv_loader.py", "src/ingestion/kaggle_downloader.py",
     "src/ingestion/gcs_uploader.py", "src/ingestion/bigquery_loader.py",
     "scripts/create_datasets.py", "scripts/load_single_table.py",
     "scripts/check_table_schema.py"}

IngestionScripts ==
    {"src/ingestion/kaggle_downloader.py", "src/ingestion/gcs_uploader.py",
     "src/ingestion/bigquery_loader.py"}

\* the variables an entry point reads without a default, or that its
\* validation names
RequiredVariables(e) ==
    IF e \in IngestionScripts
    THEN {"GCP_PROJECT_ID", "KAGGLE_USERNAME", "KAGGLE_KEY"}
    ELSE IF e = "pipeline/extract/bcb_extract.py"
    THEN {"GCP_PROJECT_ID", "BQ_DATASET_RAW", "GOOGLE_APPLICATION_CREDENTIALS"}
    ELSE {"GCP_PROJECT_ID", "GOOGLE_APPLICATION_CREDENTIALS"}

\* the variables an entry point checks before anything else (raise ValueError)
CheckedVariables(e) ==
    IF e \in {"scripts/load_single_table.py", "scripts/check_table_schema.py"}
    THEN {}
    ELSE RequiredVariables(e)

\* bigquery.Client.from_service_account_json(CREDENTIALS_PATH) opens the file
UsesCredentialsFile(e) == e \notin IngestionScripts

\* the external calls of an entry point once it is at work
CallsOf(e) ==
    CASE e \in {"extract/bcb_extractor.py", "pipeline/extract/bcb_extract.py"} ->
             {"API request", "warehouse call"}
      [] e = "src/ingestion/kaggle_downloader.py" -> {"dataset download"}
      [] e = "src/ingestion/gcs_uploader.py" -> {"storage call"}
      [] OTHER -> {"warehouse call"}

EnvIdle ==
    /\ pc_env = "off"
    /\ environ = {}
    /\ entry_point = "none"
    /\ env_error = "none"
    /\ calls_made = {}

EnvInit ==
    /\ pc_env = "idle"
    /\ environ \in SUBSET EnvNames
    /\ entry_point = "none"
    /\ env_error = "none"
    /\ calls_made = {}

\* A script is started: it reads the environment and runs its checks.
StartEntryPoint ==
    /\ pc_env = "idle"
    /\ \E e \in EntryPoints :
         /\ entry_point' = e
         /\ IF CheckedVariables(e) \subseteq environ
            THEN pc_env' = "validated" /\ env_error' = "none"
            ELSE pc_env' = "fatal" /\ env_error' = "ValueError"
    /\ UNCHANGED <<environ, calls_made, coreVars, corrVars, filterVars, loadVars, orchVars,
                   schedVars, lateVars>>

\* The client is constructed; from_service_account_json(None) raises.
CreateClient ==
    /\ pc_env = "validated"
    /\ IF UsesCredentialsFile(entry_point)
          /\ "GOOGLE_APPLICATION_CREDENTIALS" \notin environ
       THEN pc_env' = "fatal" /\ env_error' = "TypeError"
       ELSE pc_env' = "connected" /\ env_error' = "none"
    /\ UNCHANGED <<environ, entry_point, calls_made, coreVars, corrVars, filterVars,
                   loadVars, orchVars, schedVars, lateVars>>

\* The script does its work: its requests, loads or downloads are made.
DoWork ==
    /\ pc_env = "connected"
    /\ calls_made' = CallsOf(entry_point)
    /\ pc_env' = "done"
    /\ UNCHANGED <<environ, entry_point, env_error, coreVars, corrVars, filterVars,
                   loadVars, orchVars, schedVars, lateVars>>

-----------------------------------------------------------------------------
(* Schedules and sensors: the runs the Dagster daemon launches.  A run is  *)
(* launched as soon as it is requested; the definitions configure no       *)
(* concurrency limit, and no code cancels a run.                           *)

MaxTicks == 3

Schedules ==
    {"daily_morning_refresh", "afternoon_economic_update", "hourly_quality_checks",
     "weekly_sales_refresh"}

Sensors == {"bcb_data_freshness_sensor", "streamlit_refresh_sensor"}

\* job= of each schedule and sensor
TargetJob(origin) ==
    CASE origin = "daily_morning_refresh" -> "daily_full_pipeline"
      [] origin = "afternoon_economic_update" -> "economic_update_pipeline"
      [] origin = "hourly_quality_checks" -> "quality_check_pipeline"
      [] origin = "weekly_sales_refresh" -> "sales_refresh_pipeline"
      [] origin = "bcb_data_freshness_sensor" -> "economic_update_pipeline"
      [] origin = "streamlit_refresh_sensor" -> "streamlit_only_refresh"

\* what an evaluation can meet: the credentials file cannot be read (the
\* client is built before the try block), or the query comes back with the
\* age it reads (hours for the BCB sensor, minutes for the Streamlit one),
\* with no row, or with an exception
Observations ==
    {"0", "9", "10", "24", "25", "no row", "exception", "no credentials file"}

AgeOf(observed) ==
    CASE observed = "0" -> 0
      [] observed = "9" -> 9
      [] observed = "10" -> 10
      [] observed = "24" -> 24
      [] observed = "25" -> 25

\* the sensor function: it returns a "RunRequest" or a "SkipReason", or the
\* exception of from_service_account_json leaves it ("raised")
SensorResult(sensor, observed) ==
    IF observed = "no credentials file" THEN "raised"
    ELSE IF observed \in {"no row", "exception"} THEN "SkipReason"
    ELSE IF sensor = "bcb_data_freshness_sensor"
    THEN IF AgeOf(observed) > 24 THEN "RunRequest" ELSE "SkipReason"
    ELSE IF AgeOf(observed) < 10 THEN "RunRequest" ELSE "SkipReason"

NoRunKey == <<"", 0>>

RunKeyConstant(sensor, t) ==
    IF sensor = "bcb_data_freshness_sensor"
    THEN <<"bcb_refresh_", 0>>
    ELSE <<"streamlit_refresh_", 0>>

\* run_key=f"bcb_refresh_{datetime.now().isoformat()}"
RunKey(sensor, t) ==
    IF sensor = "bcb_data_freshness_sensor"
    THEN <<"bcb_refresh_", t>>
    ELSE <<"streamlit_refresh_", t>>

\* a sensor's request is dropped when a run of that sensor has its run key
AlreadyRequested(sensor, key) ==
    \E i \in 1..Len(runs) : runs[i].origin = sensor /\ runs[i].run_key = key

NewRun(origin, key) ==
    [job |-> TargetJob(origin), origin |-> origin, run_key |-> key,
     status |-> "STARTED"]

NoTick == [origin |-> "none", result |-> "none", observed |-> "none"]

SchedIdle ==
    /\ pc_sched = "off"
    /\ sched_time = 0
    /\ sensor_status = [s \in Sensors |-> "STOPPED"]
    /\ last_tick = NoTick
    /\ runs = <<>>

\* default_status=DefaultSensorStatus.STOPPED for both sensors
SchedInit ==
    /\ pc_sched = "on"
    /\ sched_time = 0
    /\ sensor_status = [s \in Sensors |-> "STOPPED"]
    /\ last_tick = NoTick
    /\ runs = <<>>

\* An operator turns a sensor on.
StartSensor ==
    /\ pc_sched = "on"
    /\ \E s \in Sensors :
         /\ sensor_status[s] = "STOPPED"
         /\ sensor_status' = [sensor_status EXCEPT ![s] = "RUNNING"]
    /\ UNCHANGED <<pc_sched, sched_time, last_tick, runs, coreVars, corrVars, filterVars,
                   loadVars, orchVars, envVars, lateVars>>

\* A schedule's cron time comes: a run of its job is launched.
ScheduleTick ==
    /\ pc_sched = "on"
    /\ sched_time < MaxTicks
    /\ \E s \in Schedules :
         /\ runs' = Append(runs, NewRun(s, NoRunKey))
         /\ last_tick' = [origin |-> s, result |-> "RunRequest", observed |-> "none"]
    /\ sched_time' = sched_time + 1
    /\ UNCHANGED <<pc_sched, sensor_status, coreVars, corrVars, filterVars, loadVars,
                   orchVars, envVars, lateVars>>

\* A running sensor is evaluated, one interval after the evaluation before.
SensorTick ==
    /\ pc_sched = "on"
    /\ sched_time < MaxTicks
    /\ \E s \in Sensors, observed \in Observations :
         /\ sensor_status[s] = "RUNNING"
         /\ LET result == SensorResult(s, observed)
                key == RunKey(s, sched_time + 1)
            IN  /\ last_tick' = [origin |-> s, result |-> result, observed |-> observed]
                /\ runs' = IF result = "RunRequest" /\ ~AlreadyRequested(s, key)
                           THEN Append(runs, NewRun(s, key))
                           ELSE runs
    /\ sched_time' = sched_time + 1
    /\ UNCHANGED <<pc_sched, sensor_status, coreVars, corrVars, filterVars, loadVars,
                   orchVars, envVars, lateVars>>

\* A run in flight comes to its end.
RunEnds ==
    /\ pc_sched = "on"
    /\ \E i \in 1..Len(runs), outcome \in {"SUCCESS", "FAILURE"} :
         /\ runs[i].status = "STARTED"
         /\ runs' = [runs EXCEPT ![i].status = outcome]
    /\ UNCHANGED <<pc_sched, sched_time, sensor_status, last_tick, coreVars, corrVars,
                   filterVars, loadVars, orchVars, envVars, lateVars>>

-----------------------------------------------------------------------------
(* Ingestion loader: load_to_bigquery of src/ingestion/bigquery_loader.py, *)
(* called again and again on a directory whose files change between calls. *)

MaxCalls == 3

\* the directory in the order os.walk lists it
SourceFiles == <<"olist_customers_dataset.csv", "README.md", "olist_orders_dataset.csv">>

FileVersions == {"v1", "v2"}

IsCsv(file) == file # "README.md"

\* os.path.splitext(file)[0].replace('olist_', '').replace('_dataset', '') + '_raw'
RawTableName(file) ==
    CASE file = "olist_customers_dataset.csv" -> "customers_raw"
      [] file = "olist_orders_dataset.csv" -> "orders_raw"
      [] OTHER -> "README_raw"

RawTables == {RawTableName(SourceFiles[i]) : i \in {j \in DOMAIN SourceFiles : IsCsv(SourceFiles[j])}}

\* the MD5 digest of a file's bytes: one digest per contents
calculate_md5(contents) ==
    CASE contents = "v1" -> "md5 of v1"
      [] contents = "v2" -> "md5 of v2"

MetadataRow(table_name, file_hash) ==
    [table_name |-> table_name, file_hash |-> file_hash, load_status |-> "success"]

\* Variant of is_file_already_loaded: any success entry of the table counts.
is_file_already_loaded_any_hash(metadata, table_name, file_hash, check) ==
    /\ check = "ok"
    /\ \E row \in metadata : row.table_name = table_name /\ row.load_status = "success"

\* SELECT COUNT(*) ... WHERE table_name = ... AND file_hash = ... AND
\* load_status = 'success'; an exception of the query gives False
is_file_already_loaded(metadata, table_name, file_hash, check) ==
    /\ check = "ok"
    /\ \E row \in metadata :
         /\ row.table_name = table_name
         /\ row.file_hash = file_hash
         /\ row.load_status = "success"

\* what can happen to a file that is not skipped
LoadOutcomes ==
    {"loaded", "load failed", "loaded, metadata insert rejected",
     "loaded, then an error"}

\* Variant of RaisesOut: a failed file is passed over.
RaisesOutNever(outcome) == FALSE

\* the outcomes in which an exception leaves the loop (and load_to_bigquery)
RaisesOut(outcome) == outcome \in {"load failed", "loaded, then an error"}

IngestIdle ==
    /\ pc_ing = "off"
    /\ source_dir = [i \in DOMAIN SourceFiles |-> "v1"]
    /\ raw_tables = [t \in RawTables |-> "none"]
    /\ load_metadata = {}
    /\ ing_pos = 1
    /\ ing_log = <<>>
    /\ ing_calls = 0

IngestInit ==
    /\ pc_ing = "idle"
    /\ source_dir \in [DOMAIN SourceFiles -> FileVersions]
    /\ raw_tables = [t \in RawTables |-> "none"]
    /\ load_metadata = {}
    /\ ing_pos = 1
    /\ ing_log = <<>>
    /\ ing_calls = 0

\* A file of the directory is replaced by another version of it.
ChangeSourceFile ==
    /\ pc_ing \in {"idle", "returned", "raised"}
    /\ \E i \in DOMAIN SourceFiles, v \in FileVersions :
         /\ IsCsv(SourceFiles[i])
         /\ v # source_dir[i]
         /\ source_dir' = [source_dir EXCEPT ![i] = v]
    /\ pc_ing' = "idle"
    /\ UNCHANGED <<raw_tables, load_metadata, ing_pos, ing_log, ing_calls>>
    /\ UNCHANGED <<coreVars, restVars, langVars>>

\* load_to_bigquery is called: client, dataset and metadata table.
IngestStart ==
    /\ pc_ing \in {"idle", "returned", "raised"}
    /\ ing_calls < MaxCalls
    /\ ing_calls' = ing_calls + 1
    /\ ing_pos' = 1
    /\ ing_log' = <<>>
    /\ \E ok \in BOOLEAN : pc_ing' = IF ok THEN "loop" ELSE "raised"
    /\ UNCHANGED <<source_dir, raw_tables, load_metadata>>
    /\ UNCHANGED <<coreVars, restVars, langVars>>

\* One iteration of the loop over the files.
IngestFile ==
    /\ pc_ing = "loop"
    /\ ing_pos <= Len(SourceFiles)
    /\ LET file == SourceFiles[ing_pos]
           table_name == RawTableName(file)
           file_hash == calculate_md5(source_dir[ing_pos])
       IN  IF ~IsCsv(file)
           THEN /\ ing_pos' = ing_pos + 1
                /\ UNCHANGED <<pc_ing, raw_tables, load_metadata, ing_log>>
           ELSE \E check \in {"ok", "error"} :
                  IF is_file_already_loaded(load_metadata, table_name, file_hash, check)
                  THEN /\ ing_log' = Append(ing_log, [file |-> file, check |-> check,
                                                      event |-> "skipped"])
                       /\ ing_pos' = ing_pos + 1
                       /\ UNCHANGED <<pc_ing, raw_tables, load_metadata>>
                  ELSE \E outcome \in LoadOutcomes :
                         /\ ing_log' = Append(ing_log, [file |-> file, check |-> check,
                                                        event |-> outcome])
                         /\ raw_tables' = IF outcome = "load failed" THEN raw_tables
                                          ELSE [raw_tables EXCEPT
                                                  ![table_name] = source_dir[ing_pos]]
                         /\ load_metadata' =
                                IF outcome = "loaded"
                                THEN load_metadata \cup {MetadataRow(table_name, file_hash)}
                                ELSE load_metadata
                         /\ IF RaisesOut(outcome)
                            THEN pc_ing' = "raised" /\ ing_pos' = ing_pos
                            ELSE pc_ing' = "loop" /\ ing_pos' = ing_pos + 1
    /\ UNCHANGED <<source_dir, ing_calls>>
    /\ UNCHANGED <<coreVars, restVars, langVars>>

\* The loop is over: load_to_bigquery returns.
IngestReturn ==
    /\ pc_ing = "loop"
    /\ ing_pos > Len(SourceFiles)
    /\ pc_ing' = "returned"
    /\ UNCHANGED <<source_dir, raw_tables, load_metadata, ing_pos, ing_log, ing_calls>>
    /\ UNCHANGED <<coreVars, restVars, langVars>>

-----------------------------------------------------------------------------
(* Dashboard: the category-name language toggle.  The loaded records carry *)
(* the English name (never NULL, by the loader's WHERE clause) and the     *)
(* Portuguese name, which the query does not constrain.                    *)

MaxNamedRows == 2

Languages == {"English", "Portuguese", "Both"}

NullName == "NULL"

NamedRows ==
    [category_name : {"Electronics", "Toys"},
     category_name_pt : {"eletronicos", "brinquedos", NullName},
     exchange_rate_period : Periods,
     order_count : {1, 2}]

\* A display name: the English part and the Portuguese part it is made of.
NaNName == [en |-> "NaN", pt |-> "NaN"]

\* df_category['display_category'] for the language chosen; a string
\* concatenated with a missing value is missing
DisplayCategory(row, language) ==
    IF language = "English" THEN [en |-> row.category_name, pt |-> ""]
    ELSE IF row.category_name_pt = NullName THEN NaNName
    ELSE IF language = "Portuguese" THEN [en |-> "", pt |-> row.category_name_pt]
    ELSE [en |-> row.category_name, pt |-> row.category_name_pt]

WithDisplay(df, language) ==
    [i \in DOMAIN df |->
        [category_name |-> df[i].category_name,
         category_name_pt |-> df[i].category_name_pt,
         exchange_rate_period |-> df[i].exchange_rate_period,
         order_count |-> df[i].order_count,
         display_category |-> DisplayCategory(df[i], language)]]

\* df_category[df_category['category_name'].isin(selected_categories) & ...]
FilterNamed(df, selected) == SelectSeq(df, LAMBDA row : row.category_name \in selected)

\* groupby(['display_category', 'exchange_rate_period']).agg({'order_count':
\* 'sum'}): rows whose key is missing belong to no group
ComparisonKeys(df) ==
    {<<df[i].display_category, df[i].exchange_rate_period>> :
        i \in {j \in DOMAIN df : df[j].display_category # NaNName}}

CategoryComparison(df) ==
    [key \in ComparisonKeys(df) |->
        SumSeq([i \in DOMAIN df |->
                  IF <<df[i].display_category, df[i].exchange_rate_period>> = key
                  THEN df[i].order_count ELSE 0])]

LangIdle ==
    /\ pc_lang = "off"
    /\ show_language = "English"
    /\ df_named = <<>>
    /\ named_selection = {}
    /\ df_named_filtered = <<>>
    /\ category_comparison = <<>>

LangInit ==
    /\ pc_lang = "loaded"
    /\ show_language = "English"
    /\ df_named \in SeqsUpTo(NamedRows, MaxNamedRows)
    /\ named_selection = {}
    /\ df_named_filtered = <<>>
    /\ category_comparison = <<>>

\* A script run with a language and a category selection: the display
\* column is set, the records are filtered, and the comparison is grouped.
RerunWithLanguage ==
    /\ pc_lang \in {"loaded", "rendered"}
    /\ \E language \in Languages,
          selected \in SUBSET {df_named[i].category_name : i \in DOMAIN df_named} :
         /\ show_language' = language
         /\ named_selection' = selected
         /\ \E filtered \in {FilterNamed(WithDisplay(df_named, language), selected)} :
              /\ df_named_filtered' = filtered
              /\ category_comparison' = CategoryComparison(filtered)
    /\ pc_lang' = "rendered"
    /\ UNCHANGED df_named
    /\ UNCHANGED <<coreVars, restVars, ingVars>>

-----------------------------------------------------------------------------
(* The specifications                                                      *)

CoreIdle == DashIdle /\ CohortIdle /\ BCBIdle /\ CSVIdle
RestIdle == CorrIdle /\ FilterIdle /\ LoadIdle /\ OrchIdle /\ EnvIdle /\ SchedIdle

NextElasticity == RenderElasticity
NextCohort == RenderCohortRetention
NextSeries == ExtractSeries
NextBCB == StartRun \/ FetchSeries \/ AfterLoop \/ LoadIndicators
NextCorr == RenderCorrelations
LateIdle == IngestIdle /\ LangIdle
NextLanguage == RerunWithLanguage
NextIngest == ChangeSourceFile \/ IngestStart \/ IngestFile \/ IngestReturn
NextSched == StartSensor \/ ScheduleTick \/ SensorTick \/ RunEnds
NextEnv == StartEntryPoint \/ CreateClient \/ DoWork
NextOrch == StartStep \/ SkipStep \/ FinishStep \/ FinishRun \/ RunScriptStep
NextLoad == RunDashboard \/ CacheExpires \/ DbtRun
NextFilters == ChangeDateRange \/ ChangeCategories \/ ChangeStates \/ ChangeExchange
NextCSV == StartLoadAll \/ SkipFile \/ LoadFile \/ FinishLoadAll \/ LoadSingleTable
           \/ ReplaceFile

InitElasticity == DashInit /\ CohortIdle /\ BCBIdle /\ CSVIdle /\ RestIdle
    /\ LateIdle
InitElasticityWide == DashInitWide /\ CohortIdle /\ BCBIdle /\ CSVIdle /\ RestIdle
    /\ LateIdle
InitCohort == DashIdle /\ CohortInit /\ BCBIdle /\ CSVIdle /\ RestIdle
    /\ LateIdle
InitSeries == DashIdle /\ CohortIdle /\ SeriesInit /\ CSVIdle /\ RestIdle
    /\ LateIdle
InitBCB == DashIdle /\ CohortIdle /\ BCBInit /\ CSVIdle /\ RestIdle
    /\ LateIdle
InitCSV == DashIdle /\ CohortIdle /\ BCBIdle /\ CSVInit /\ RestIdle
    /\ LateIdle
InitCorr == CoreIdle /\ CorrInit /\ FilterIdle /\ LoadIdle /\ OrchIdle /\ EnvIdle
    /\ SchedIdle
    /\ LateIdle
InitFilters == CoreIdle /\ CorrIdle /\ FilterInit /\ LoadIdle /\ OrchIdle /\ EnvIdle
    /\ SchedIdle
    /\ LateIdle
InitLoad == CoreIdle /\ CorrIdle /\ FilterIdle /\ LoadInit /\ OrchIdle /\ EnvIdle
    /\ SchedIdle
    /\ LateIdle
InitOrch == CoreIdle /\ CorrIdle /\ FilterIdle /\ LoadIdle /\ OrchInit /\ EnvIdle
    /\ SchedIdle
    /\ LateIdle
InitEnv == CoreIdle /\ CorrIdle /\ FilterIdle /\ LoadIdle /\ OrchIdle /\ EnvInit
    /\ SchedIdle
    /\ LateIdle
InitSched ==
    CoreIdle /\ CorrIdle /\ FilterIdle /\ LoadIdle /\ OrchIdle /\ EnvIdle /\ SchedInit
    /\ LateIdle

SpecElasticity == InitElasticity /\ [][NextElasticity]_vars
SpecElasticityWide == InitElasticityWide /\ [][NextElasticity]_vars
SpecCohort == InitCohort /\ [][NextCohort]_vars
SpecSeries == InitSeries /\ [][NextSeries]_vars
SpecBCB == InitBCB /\ [][NextBCB]_vars
SpecCSV == InitCSV /\ [][NextCSV]_vars
SpecCorr == InitCorr /\ [][NextCorr]_vars
SpecFilters == InitFilters /\ [][NextFilters]_vars
SpecLoad == InitLoad /\ [][NextLoad]_vars
SpecOrch == InitOrch /\ [][NextOrch]_vars
SpecEnv == InitEnv /\ [][NextEnv]_vars
SpecSched == InitSched /\ [][NextSched]_vars
InitIngest == CoreIdle /\ RestIdle /\ IngestInit /\ LangIdle
SpecIngest == InitIngest /\ [][NextIngest]_vars
InitLanguage == CoreIdle /\ RestIdle /\ IngestIdle /\ LangInit
SpecLanguage == InitLanguage /\ [][NextLanguage]_vars

Init == InitElasticity \/ InitCohort \/ InitSeries \/ InitBCB \/ InitCSV
        \/ InitCorr \/ InitFilters \/ InitLoad \/ InitOrch \/ InitEnv
        \/ InitSched \/ InitIngest \/ InitLanguage
Next == NextElasticity \/ NextCohort \/ NextSeries \/ NextBCB \/ NextCSV
        \/ NextCorr \/ NextFilters \/ NextLoad \/ NextOrch \/ NextEnv
        \/ NextSched \/ NextIngest \/ NextLanguage
Spec == Init /\ [][Next]_vars

-----------------------------------------------------------------------------
(* Properties: category economic sensitivity                               *)

\* The order count of a category in a period, summed over the filtered records.
OrdersIn(c, p) ==
    SumSeq([i \in DOMAIN df_cat_filtered |->
              IF df_cat_filtered[i].display_category = c
                 /\ df_cat_filtered[i].exchange_rate_period = p
              THEN df_cat_filtered[i].order_count ELSE 0])

FilteredCategories == {df_cat_filtered[i].display_category : i \in DOMAIN df_cat_filtered}

HasRows(c, p) ==
    \E i \in DOMAIN df_cat_filtered :
        /\ df_cat_filtered[i].display_category = c
        /\ df_cat_filtered[i].exchange_rate_period = p

ElasticityShown == pc_dash = "rendered" /\ category_variance.has_elasticity

C2_ElasticityFormula ==
    ElasticityShown =>
        \A c \in FilteredCategories :
            LET strong == OrdersIn(c, "Strong BRL")
                weak   == OrdersIn(c, "Weak BRL")
                e      == category_variance.elasticity[c]
            IN  strong # 0 =>
                  /\ e.k = "num" /\ e.d > 0
                  /\ e.n * strong = 100 * (weak - strong) * e.d
                  /\ (strong = 100 /\ weak = 150) => (e.n = 50 /\ e.d = 1)

\* C2 witness: a category with 100 "Strong BRL" and 150 "Weak BRL" orders was
\* given an elasticity, next to a category whose elasticity is negative.
C2_Witness ==
    /\ ElasticityShown
    /\ \E c \in FilteredCategories :
         OrdersIn(c, "Strong BRL") = 100 /\ OrdersIn(c, "Weak BRL") = 150
    /\ \E c \in FilteredCategories :
         OrdersIn(c, "Strong BRL") # 0 /\ category_variance.elasticity[c].n < 0

-----------------------------------------------------------------------------
(* Properties: economic indicator extractor                                *)

SeriesDone == pc_bcb = "series_done"

\* C3: extract_series drops every row whose value does not parse as a number:
\* no output row has a missing value, and the sample response (01/01/2016 with
\* 3.25, 02/01/2016 with abc) yields the single record (2016-01-01, 3.25).
C3_UnparsableRowsDropped ==
    (SeriesDone /\ ~series_out.raised) =>
        /\ \A i \in DOMAIN series_out.df : series_out.df[i].valor.k = "num"
        /\ series_in.response.rows = SampleRows =>
             /\ Len(series_out.df) = 1
             /\ series_out.df[1].data = [nat |-> FALSE, y |-> 2016, m |-> 1, d |-> 1]
             /\ series_out.df[1].valor = [k |-> "num", n |-> 13, d |-> 4]

\* C4: an extraction never returns more rows than the API response holds, and
\* the date of every output row is the valid calendar date that the
\* day-month-year string of the input row at the same position names.
C4_RowsAndDates ==
    SeriesDone =>
        /\ Len(series_out.df) <= Len(series_in.response.rows)
        /\ \A i \in DOMAIN series_out.df :
             LET src  == series_in.response.rows[i].data
                 date == series_out.df[i].data
             IN  /\ ~date.nat
                 /\ date.d = src.dd /\ date.m = src.mm /\ date.y = src.yyyy
                 /\ date.m \in 1..12
                 /\ date.d \in 1..DaysInMonth(date.m, date.y)

\* C4 witness: a two-row response whose days and months differ, one of them
\* the 29th of February of a leap year, was turned into two output rows.
C4_Witness ==
    /\ SeriesDone
    /\ Len(series_out.df) = 2
    /\ series_out.df[1].data = [nat |-> FALSE, y |-> 2016, m |-> 1, d |-> 2]
    /\ series_out.df[2].data = [nat |-> FALSE, y |-> 2016, m |-> 2, d |-> 29]

RunExited == pc_bcb = "exit"

\* Facts of the run that has just exited, read from its request log.
SeriesRequested == [i \in DOMAIN requests_made |-> requests_made[i].series_name]
SomeSeriesReturnedData == \E i \in DOMAIN requests_made : requests_made[i].outcome = "data"
RunFailed == bcb_result.returned # "df"
LoadJobFailed ==
    \E j \in DOMAIN bq_jobs : bq_jobs[j].run = clock /\ ~bq_jobs[j].ok

\* Every series of the enum is requested, in order, whatever failed before it,
\* and every failed series is logged.
FailedSeriesSkipped ==
    /\ SeriesRequested = SERIES
    /\ \A i \in DOMAIN requests_made :
         requests_made[i].outcome = "raised" <=>
             <<"Error extracting", requests_made[i].series_name>> \in Range(bcb_log)

C6_TableReplaced ==
    (RunExited /\ bcb_result.returned = "df") =>
        /\ bq_indicators = Concat(all_data)
        /\ Len(bq_indicators) = SumSeq([i \in DOMAIN all_data |-> Len(all_data[i])])
        /\ \A i \in DOMAIN bq_indicators :
             /\ bq_indicators[i].extracted_at = clock
             /\ \E j \in DOMAIN requests_made :
                  /\ requests_made[j].outcome = "data"
                  /\ requests_made[j].series_name = bq_indicators[i].series_name

\* C6 witness: a second successful run, with a series skipped, after an
\* earlier run had loaded its rows into the table.
C6_Witness ==
    /\ RunExited /\ bcb_result.returned = "df"
    /\ clock = 2
    /\ \E j \in DOMAIN bq_jobs : bq_jobs[j].run = 1 /\ bq_jobs[j].ok /\ bq_jobs[j].rows > 2
    /\ \E i \in DOMAIN requests_made : requests_made[i].outcome = "raised"
    /\ Len(bq_indicators) = 2

-----------------------------------------------------------------------------
(* Properties: CSV loader                                                  *)

LoadAllDone == pc_csv = "done"

MappedFilesInDir == {f \in DOMAIN csv_dir : f \in DOMAIN TABLE_MAPPING}
UnmappedFilesInDir == DOMAIN csv_dir \ MappedFilesInDir

AttemptsOf(f) == {i \in DOMAIN csv_attempts : csv_attempts[i].file = f}

\* C7: load_all_csvs continues after a failure: no file is ever tried twice in
\* a run, and when the run is over every mapped file of the directory has been
\* tried exactly once, every failed one is reported, and the successful ones
\* are the tables listed as loaded.
C7_ContinuesAfterFailure ==
    /\ \A f \in DOMAIN csv_dir : Cardinality(AttemptsOf(f)) <= 1
    /\ LoadAllDone =>
         /\ \A f \in MappedFilesInDir : Cardinality(AttemptsOf(f)) = 1
         /\ \A i \in DOMAIN csv_attempts :
              ~csv_attempts[i].ok <=>
                  <<"Error loading", csv_attempts[i].file>> \in Range(csv_log)
         /\ loaded_tables =
              LET Ok(a) == a.ok
                  done == SelectSeq(csv_attempts, Ok)
              IN  [i \in DOMAIN done |-> done[i].table]

\* C7 witness: a finished run in which a load failed and a later file of the
\* directory was loaded all the same.
C7_Witness ==
    /\ LoadAllDone
    /\ \E i, j \in DOMAIN csv_attempts :
         i < j /\ ~csv_attempts[i].ok /\ csv_attempts[j].ok

\* C8: a table is written only for a file named in the mapping, and it is the
\* table the mapping names; a file not in the mapping is skipped with a log
\* line and without a load, and the files after it are still processed.
C8_OnlyMappedFilesLoaded ==
    /\ \A i \in DOMAIN csv_attempts :
         LET a == csv_attempts[i]
         IN  \/ a.file = "olist_order_reviews_dataset.csv" /\ a.table = "public-reviews"
             \/ a.file = "olist_orders_dataset.csv" /\ a.table = "public-orders"
             \/ a.file = "product_category_name_translation.csv"
                /\ a.table = "public-product_category"
    /\ \A t \in TableNames :
         bq_tables[t] # <<>> => \E f \in MappedFilesInDir : TABLE_MAPPING[f] = t
    /\ LoadAllDone =>
         /\ \A f \in UnmappedFilesInDir :
              /\ <<"Skipping", f>> \in Range(csv_log)
              /\ AttemptsOf(f) = {}
         /\ \A f \in MappedFilesInDir :
              /\ AttemptsOf(f) # {}
              /\ <<"Skipping", f>> \notin Range(csv_log)

\* C8 witness: a finished run over a directory with an unmapped file in which
\* a file sorted after it was loaded into its table.
C8_Witness ==
    /\ LoadAllDone
    /\ "olist_orders_backup.csv" \in DOMAIN csv_dir
    /\ <<"Skipping", "olist_orders_backup.csv">> \in Range(csv_log)
    /\ \E i \in DOMAIN csv_attempts :
         /\ csv_attempts[i].file = "olist_orders_dataset.csv"
         /\ csv_attempts[i].ok
    /\ bq_tables["public-orders"] # <<>>

\* C9: loading is idempotent: across any step in which the last file contents
\* loaded into a table stay the same (no load, a failed load, or a completed
\* load of the same contents again), the table's contents and the row count
\* reported for it stay the same.
C9_LoadIdempotent ==
    [][\A t \in TableNames :
         (last_load[t].done /\ last_load'[t].contents = last_load[t].contents) =>
             /\ bq_tables'[t] = bq_tables[t]
             /\ last_load'[t].num_rows = last_load[t].num_rows
             /\ Len(bq_tables'[t]) = last_load'[t].num_rows]_vars

\* C9 witness: a table whose last completed load loaded the same file contents
\* as the completed load before it.
C9_Witness ==
    \E t \in TableNames :
        /\ last_load[t].repeated
        /\ bq_tables[t] = last_load[t].contents.rows
        /\ Len(bq_tables[t]) = 2

-----------------------------------------------------------------------------
(* Properties: cohort retention                                            *)

MonthOf(date) == date.y * 12 + date.m - 1
SpanInMonths(row) ==
    IF row.last_order_date.nat THEN 0
    ELSE MonthOf(row.last_order_date) - MonthOf(row.first_order_date)

CohortMonths ==
    {MonthOf(df_customers[i].first_order_date) :
        i \in {j \in DOMAIN df_customers : ~df_customers[j].first_order_date.nat}}
CohortMembers(c) ==
    {i \in DOMAIN df_customers :
        /\ ~df_customers[i].first_order_date.nat
        /\ MonthOf(df_customers[i].first_order_date) = c}
RetentionRowsOf(c, k) ==
    {i \in DOMAIN retention_data :
        retention_data[i].cohort = c /\ retention_data[i].period = k}

\* C11: customers are grouped by first-purchase month, and for every cohort
\* and every month offset k from 0 to 12 there is exactly one retention row,
\* whose rate is 100 * (customers of the cohort with a span of at least k
\* months) / (cohort size); no other row is produced.
C11_RetentionFormula ==
    pc_cohort = "rendered" =>
        /\ Len(retention_data) = 13 * Cardinality(CohortMonths)
        /\ \A i \in DOMAIN retention_data :
             retention_data[i].cohort \in CohortMonths /\ retention_data[i].period \in 0..12
        /\ \A c \in CohortMonths : \A k \in 0..12 :
             /\ Cardinality(RetentionRowsOf(c, k)) = 1
             /\ \A i \in RetentionRowsOf(c, k) :
                  LET size  == Cardinality(CohortMembers(c))
                      count == Cardinality({m \in CohortMembers(c) :
                                               SpanInMonths(df_customers[m]) >= k})
                      rate  == retention_data[i].retention_rate
                  IN  /\ rate.k = "num" /\ rate.d > 0
                      /\ rate.n * size = 100 * count * rate.d
                      /\ retention_data[i].customers_retained = count

\* C11 witness: a cohort of two customers, one with a span of 1 month and one
\* with a span of 14 months, has retention 100% at offset 1 and 50% at 12.
C11_Witness ==
    /\ pc_cohort = "rendered"
    /\ Len(df_customers) = 2
    /\ \E i, j \in DOMAIN retention_data :
         /\ retention_data[i].cohort = retention_data[j].cohort
         /\ retention_data[i].period = 1
         /\ retention_data[i].retention_rate = [k |-> "num", n |-> 100, d |-> 1]
         /\ retention_data[j].period = 12
         /\ retention_data[j].retention_rate = [k |-> "num", n |-> 50, d |-> 1]

-----------------------------------------------------------------------------
(* Properties: economic indicator extractor, requests                      *)

\* C19: there is no retry: within one run no series is requested twice, so a
\* series whose request failed is never requested again in that run.
C19_NoRetry ==
    /\ Len(requests_made) <= 5
    /\ \A i, j \in DOMAIN requests_made :
         requests_made[i].series_name = requests_made[j].series_name => i = j

\* C19 witness: a finished run in which a request failed and the series after
\* it were requested.
C19_Witness ==
    /\ RunExited
    /\ Len(requests_made) = 5
    /\ requests_made[2].outcome = "raised"
    /\ requests_made[3].outcome = "data"

-----------------------------------------------------------------------------
(* Properties: category correlations                                       *)

\* The months of a category's records whose joined indicator row is complete.
JoinedObservations(c) ==
    {m \in Months :
        /\ \E r \in df_cat_with_indicators :
               r.display_category = c /\ r.order_month = m
        /\ monthly_indicators[m].present
        /\ monthly_indicators[m].avg_exchange_rate.k = "num"
        /\ monthly_indicators[m].inflation_rate.k = "num"
        /\ monthly_indicators[m].interest_rate.k = "num"}

\* C12: a category has a row of correlation values only when, after its
\* monthly revenue is joined by month with the indicators, it has more than
\* the minimum of 2 monthly observations; a category with 2 or fewer has no
\* row, and no category has more than one row.
C12_CorrelationNeedsObservations ==
    pc_corr = "rendered" =>
        /\ \A e \in category_correlations :
             Cardinality(JoinedObservations(e.category)) > 2
        /\ \A e, f \in category_correlations : e.category = f.category => e = f

\* C12 witness: a category with exactly 3 joined observations has a row of
\* values while another category, with records but only 2 joined
\* observations, has none.
C12_Witness ==
    /\ pc_corr = "rendered"
    /\ \E e \in category_correlations :
         /\ Cardinality(JoinedObservations(e.category)) = 3
         /\ e.exchange_rate_corr.k = "num"
    /\ \E c \in Categories :
         /\ Cardinality(JoinedObservations(c)) = 2
         /\ \A e \in category_correlations : e.category # c

-----------------------------------------------------------------------------
(* Properties: sidebar filters                                             *)

\* A month lies in the selected date range when both endpoints are chosen.
InSelectedRange(month) ==
    Len(date_range) = 2 => (date_range[1] <= month /\ month <= date_range[2])

\* C13: after every interaction the category record set is exactly the
\* loaded category records in the selected date range whose category and
\* exchange-rate period are selected, and the geographic record set is
\* exactly the loaded geographic records in the date range whose state and
\* category are selected, whatever was selected before.
C13_FilteredFromCurrentSelections ==
    pc_filter = "shown" =>
        /\ df_category_filtered =
               {r \in df_category_loaded :
                   /\ InSelectedRange(r.order_month)
                   /\ r.category_name \in selected_categories
                   /\ r.exchange_rate_period \in selected_exchange}
        /\ df_geo_filtered =
               {r \in df_geo_loaded :
                   /\ InSelectedRange(r.order_month)
                   /\ r.customer_state \in selected_states
                   /\ r.category_name \in selected_categories}

\* C13 witness: two category records and a geographic record are loaded, the
\* whole date range is selected and a category is deselected: one category
\* record is shown, the other and the geographic record are filtered out.
C13_Witness ==
    /\ pc_filter = "shown"
    /\ Cardinality(df_category_loaded) = 2
    /\ Cardinality(df_geo_loaded) = 1
    /\ Len(date_range) = 2 /\ date_range[1] < date_range[2]
    /\ selected_categories # category_options
    /\ df_category_filtered # {} /\ df_category_filtered # df_category_loaded
    /\ df_geo_filtered = {}

-----------------------------------------------------------------------------
(* Properties: mart loaders                                                *)

DashboardRan == pc_load \in {"rendered", "crashed"}

\* C14: a missing mart never crashes the dashboard: in every script run each
\* failed query is caught, its message with the remediation command is
\* shown, and the run goes on to render (all five loaders are called).
C14_MissingMartsNeverCrash ==
    DashboardRan =>
        /\ pc_load = "rendered"
        /\ last_run.called = MartNames
        /\ \A t \in last_run.failed : RemediationMessage(t) \in last_run.warnings

\* C20: no script run of the dashboard, whatever the interaction that
\* started it, and no cache expiry changes the contents of a mart table.
C20_DashboardOnlyReads ==
    [][(RunDashboard \/ CacheExpires) => marts' = marts]_vars

\* C20 witness: the dashboard has run against marts that dbt built while it
\* was in use, and holds the contents of all five in its cache.
C20_Witness ==
    /\ pc_load = "rendered"
    /\ last_run.interaction = "filter change"
    /\ \A t \in MartNames : data_cache[t].cached /\ data_cache[t].build = marts[t]
    /\ \A t \in MartNames : marts[t] > 0

-----------------------------------------------------------------------------
(* Properties: orchestration                                               *)

Started(a) == step_status[a] \in {"running", "success", "failed"}
InRun(a) == step_status[a] # "none"
IsScriptRun == orch_job = "run_full_pipeline"

\* The steps a step comes after: its deps for an asset, the steps before it
\* for a step of run_full_pipeline.
ComesAfter(a) ==
    IF a \in AssetNames THEN AssetDeps(a)
    ELSE {ScriptSteps[i] : i \in {j \in DOMAIN ScriptSteps :
                                     \E k \in DOMAIN ScriptSteps : j < k /\ ScriptSteps[k] = a}}

EndedWithoutRaising(d) ==
    \/ step_status[d] = "success"
    \/ step_status[d] = "failed" /\ ~RaisesOnFailure(d)

C16_FailingTestsDoNotGate ==
    (pc_orch = "done" /\ test_report = "FAILED") =>
        IF IsScriptRun
        THEN /\ step_status["dbt_test"] = "failed"
             /\ "dbt tests had failures (check output above)" \in orch_log
             /\ step_status["validate_pipeline"] \in {"success", "failed"}
             /\ step_status["print_summary"] = "success"
             /\ exit_code = 0
        ELSE /\ step_status["dbt_data_quality_tests"] = "success"
             /\ "Data quality tests FAILED" \in orch_log
             /\ InRun("streamlit_cache_refresh") =>
                    step_status["streamlit_cache_refresh"] \in {"success", "failed"}
             /\ (InRun("pipeline_execution_report")
                 /\ step_status["streamlit_cache_refresh"] = "success") =>
                    step_status["pipeline_execution_report"] \in {"success", "failed"}

\* C16 witness: the daily full asset job ended with failing tests and with
\* the refresh and the report done.
C16_Witness ==
    /\ pc_orch = "done"
    /\ orch_job = "daily_full_pipeline"
    /\ test_report = "FAILED"
    /\ step_status["streamlit_cache_refresh"] = "success"
    /\ step_status["pipeline_execution_report"] = "success"

-----------------------------------------------------------------------------
(* Properties: entry points                                                *)

\* C17: an entry point started with one of its required variables unset
\* never gets to work: no API request, warehouse call or dataset download
\* is made.
C17_NoWorkWithoutRequiredVariables ==
    (entry_point # "none" /\ ~(RequiredVariables(entry_point) \subseteq environ)) =>
        /\ pc_env # "done"
        /\ calls_made = {}

-----------------------------------------------------------------------------
(* Properties: schedules and sensors                                       *)

InFlight(i) == runs[i].status = "STARTED"

\* two jobs write the same tables when their selections share an asset
WriteSameTables(j1, j2) == JobSelection(j1) \cap JobSelection(j2) # {}

TickRequestsRun ==
    /\ sched_time' = sched_time + 1
    /\ last_tick'.result = "RunRequest"

\* C18: runs are not mutually exclusive.  Every schedule tick, and every
\* sensor evaluation that returns a RunRequest, starts a new run, whatever
\* runs are in flight, and leaves every earlier run as it was: none is
\* cancelled and no request is dropped as a duplicate.
C18_RequestedRunStarts ==
    [][TickRequestsRun =>
        /\ Len(runs') = Len(runs) + 1
        /\ runs'[Len(runs')].status = "STARTED"
        /\ runs'[Len(runs')].job = TargetJob(last_tick'.origin)
        /\ \A i \in 1..Len(runs) : runs'[i] = runs[i]]_vars

\* two runs that write the same tables are in flight together, the later one
\* requested by a sensor after an earlier request of the same sensor
C18_Witness ==
    \E i, j, k \in 1..Len(runs) :
        /\ i < j /\ k < j
        /\ InFlight(i) /\ InFlight(j)
        /\ WriteSameTables(runs[i].job, runs[j].job)
        /\ runs[j].origin \in Sensors
        /\ runs[k].origin = runs[j].origin

-----------------------------------------------------------------------------
(* Properties: the sensitivity chart                                       *)

ShownCategories == {elasticity_df[i].display_category : i \in DOMAIN elasticity_df}

AtLeast(x, y) == y.n * x.d <= x.n * y.d

\* C21: the rows of the sensitivity chart are in descending order of
\* elasticity and are at most 15, one per category, each with the elasticity
\* computed for it; every category shown has an elasticity greater than or
\* equal to that of every category not shown, and a category is left out
\* only when 15 are shown.
C21_TopNDescending ==
    ElasticityShown =>
        /\ Len(elasticity_df) <= 15
        /\ Len(elasticity_df) = Cardinality(ShownCategories)
        /\ ShownCategories \subseteq category_variance.index
        /\ ShownCategories # category_variance.index => Len(elasticity_df) = 15
        /\ \A i \in DOMAIN elasticity_df :
             elasticity_df[i].elasticity =
                 category_variance.elasticity[elasticity_df[i].display_category]
        /\ \A i, j \in DOMAIN elasticity_df :
             i < j => AtLeast(elasticity_df[i].elasticity, elasticity_df[j].elasticity)
        /\ \A c \in ShownCategories, o \in category_variance.index \ ShownCategories :
             AtLeast(category_variance.elasticity[c], category_variance.elasticity[o])

\* C21 witness: more than 15 categories have an elasticity, 15 are shown with
\* two different values among them, and a category left out has a smaller
\* elasticity than one shown.
C21_Witness ==
    /\ ElasticityShown
    /\ Cardinality(category_variance.index) > 15
    /\ Len(elasticity_df) = 15
    /\ elasticity_df[1].elasticity # elasticity_df[15].elasticity
    /\ \E c \in ShownCategories, o \in category_variance.index \ ShownCategories :
         category_variance.elasticity[c] # category_variance.elasticity[o]

-----------------------------------------------------------------------------
(* Properties: run_full_pipeline                                           *)

ScriptRunEnded == IsScriptRun /\ pc_orch = "done"

\* the numbered steps of run_full_pipeline that come after a step
StepsAfter(step) ==
    {ScriptSteps[k] : k \in {j \in DOMAIN ScriptSteps :
        /\ ScriptSteps[j] # "print_summary"
        /\ \E i \in DOMAIN ScriptSteps : i < j /\ ScriptSteps[i] = step}}

\* C22: run_full_pipeline returns 0 exactly when the Kaggle extraction, the
\* warehouse load and the dbt run all succeeded.  When one of the three
\* fails the run ends with 1 and none of the steps after it is started.  A
\* failed BCB extraction, dbt test or validation is logged, the steps after
\* it are still started, and the exit code is that of the three.
C22_ExitCodeOfThreeSteps ==
    IsScriptRun =>
        /\ \A step \in {"extract_kaggle", "load_to_bigquery", "dbt_run"} :
             step_status[step] = "failed" =>
                 /\ pc_orch = "done" /\ exit_code = 1
                 /\ \A later \in StepsAfter(step) : ~Started(later)
        /\ \A step \in {"extract_bcb", "dbt_test", "validate_pipeline"} :
             step_status[step] = "failed" =>
                 /\ FailureLog(step) \subseteq orch_log
                 /\ "Pipeline failed" \notin FailureLog(step)
                 /\ pc_orch = "done" =>
                      \/ \A later \in StepsAfter(step) : Started(later)
                      \/ \E later \in StepsAfter(step) :
                             /\ later \in {"load_to_bigquery", "dbt_run"}
                             /\ step_status[later] = "failed"
        /\ pc_orch = "done" =>
             /\ exit_code \in {0, 1}
             /\ exit_code = 0 <=>
                  \A step \in {"extract_kaggle", "load_to_bigquery", "dbt_run"} :
                      step_status[step] = "success"

\* C22 witness: a run in which the BCB extraction failed, the load was still
\* made, and the dbt run failed: it returned 1 without starting the tests.
C22_Witness ==
    /\ ScriptRunEnded
    /\ step_status["extract_bcb"] = "failed"
    /\ step_status["load_to_bigquery"] = "success"
    /\ step_status["dbt_run"] = "failed"
    /\ ~Started("dbt_test")
    /\ exit_code = 1

-----------------------------------------------------------------------------
(* Properties: the freshness sensor                                        *)

\* C23: an evaluation of bcb_data_freshness_sensor requests a run exactly
\* when the newest extraction is more than 24 hours old, and otherwise (data
\* of 24 hours or fresher, or a check that failed) returns a skip: it never
\* raises.
C23_RequestsExactlyWhenStale ==
    last_tick.origin = "bcb_data_freshness_sensor" =>
        /\ last_tick.result = "RunRequest" <=> last_tick.observed = "25"
        /\ last_tick.result # "RunRequest" => last_tick.result = "SkipReason"

-----------------------------------------------------------------------------
(* Properties: the ingestion loader                                        *)

\* a step of the loop that handled a CSV file
HandledFile == pc_ing = "loop" /\ Len(ing_log') = Len(ing_log) + 1

HasSuccessEntry(table_name, file_hash) ==
    [table_name |-> table_name, file_hash |-> file_hash, load_status |-> "success"]
        \in load_metadata

\* C24: a CSV file is skipped exactly when _load_metadata holds a 'success'
\* row with its table name and the MD5 hash of its contents and the check
\* did not error; a skipped file changes nothing.  Otherwise the file is
\* loaded, which replaces the table by the file's contents, and a 'success'
\* row for the table and the hash is added only in a step in which the load
\* completed.
C24_SkipOnlyLoadedHash ==
    [][HandledFile =>
        LET file == SourceFiles[ing_pos]
            table_name == RawTableName(file)
            contents == source_dir[ing_pos]
            done == ing_log'[Len(ing_log')]
        IN  /\ done.file = file
            /\ done.event = "skipped" <=>
                   (HasSuccessEntry(table_name, calculate_md5(contents))
                    /\ done.check = "ok")
            /\ done.event = "skipped" =>
                   raw_tables' = raw_tables /\ load_metadata' = load_metadata
            /\ done.event \notin {"skipped", "load failed"} =>
                   raw_tables' = [raw_tables EXCEPT ![table_name] = contents]
            /\ load_metadata' # load_metadata =>
                   /\ done.event = "loaded"
                   /\ raw_tables'[table_name] = contents
                   /\ load_metadata' = load_metadata \cup
                          {[table_name |-> table_name,
                            file_hash |-> calculate_md5(contents),
                            load_status |-> "success"]}]_vars

\* C24 witness: in one call a file was skipped, and another file, whose
\* metadata check errored although its hash was on record, was loaded.
C24_Witness ==
    \E i, j \in DOMAIN ing_log :
        /\ ing_log[i].event = "skipped"
        /\ ing_log[j].event = "loaded" /\ ing_log[j].check = "error"
        /\ Cardinality({row \in load_metadata :
                           row.table_name = RawTableName(ing_log[j].file)}) = 1

FailureEvents == {"load failed", "loaded, then an error"}

PositionOf(file) == CHOOSE i \in DOMAIN SourceFiles : SourceFiles[i] = file

\* C25: a failure while loading one file ends the call with the exception:
\* the step writes no metadata row and leaves the other tables alone, the
\* tables loaded earlier in the call hold the contents of their files, and
\* no further file is handled until load_to_bigquery is called again.
C25_FailureAbortsCall ==
    [][/\ (HandledFile /\ ing_log'[Len(ing_log')].event \in FailureEvents) =>
            /\ pc_ing' = "raised"
            /\ load_metadata' = load_metadata
            /\ \A t \in RawTables \ {RawTableName(SourceFiles[ing_pos])} :
                   raw_tables'[t] = raw_tables[t]
            /\ \A i \in DOMAIN ing_log :
                   ing_log[i].event \notin {"skipped", "load failed"} =>
                       raw_tables'[RawTableName(ing_log[i].file)]
                           = source_dir[PositionOf(ing_log[i].file)]
       /\ pc_ing = "raised" =>
            \/ ing_log' = ing_log /\ raw_tables' = raw_tables
                 /\ load_metadata' = load_metadata
            \/ ing_calls' = ing_calls + 1]_vars

\* C25 witness: a call raised at the second CSV file after it had loaded the
\* first, whose table holds the file's contents.
C25_Witness ==
    /\ pc_ing = "raised"
    /\ Len(ing_log) = 2
    /\ ing_log[1].event = "loaded"
    /\ ing_log[2].event = "load failed"
    /\ raw_tables[RawTableName(ing_log[1].file)] = source_dir[PositionOf(ing_log[1].file)]
    /\ raw_tables[RawTableName(ing_log[2].file)] # source_dir[PositionOf(ing_log[2].file)]

\* C27: when a call of load_to_bigquery has returned without error, every
\* raw table of a CSV file of the directory holds the contents the file has.
C27_TablesHoldCurrentFiles ==
    pc_ing = "returned" =>
        \A i \in DOMAIN SourceFiles :
            IsCsv(SourceFiles[i]) =>
                raw_tables[RawTableName(SourceFiles[i])] = source_dir[i]

-----------------------------------------------------------------------------
(* Properties: the status of the test asset                                *)

TestAssetReported == orch_job \in AssetJobs /\ test_report # "none"

\* C26: the status of dbt_data_quality_tests is FAILED when the error count
\* of the output is above 0, WARNING when it is 0 and the warning count is
\* above 0, and SUCCESS otherwise; SUCCESS is reported only when the command
\* ran the tests and every test passed.
C26_StatusOfTestCounts ==
    TestAssetReported =>
        /\ test_report = "FAILED" <=> (dbt_output.summary /\ dbt_output.errors > 0)
        /\ test_report = "WARNING" <=>
               (dbt_output.summary /\ dbt_output.errors = 0 /\ dbt_output.warned > 0)
        /\ test_report = "SUCCESS" =>
               /\ dbt_output.summary
               /\ dbt_output.errors = 0 /\ dbt_output.warned = 0
               /\ dbt_output.skipped = 0

-----------------------------------------------------------------------------
(* Properties: the language toggle                                         *)

NamedCategories == {df_named_filtered[i].category_name : i \in DOMAIN df_named_filtered}

OrdersOfCategory(c, p) ==
    SumSeq([i \in DOMAIN df_named_filtered |->
              IF df_named_filtered[i].category_name = c
                 /\ df_named_filtered[i].exchange_rate_period = p
              THEN df_named_filtered[i].order_count ELSE 0])

SameRecords(df, other) ==
    /\ Len(df) = Len(other)
    /\ \A i \in DOMAIN df :
         /\ df[i].category_name = other[i].category_name
         /\ df[i].category_name_pt = other[i].category_name_pt
         /\ df[i].exchange_rate_period = other[i].exchange_rate_period
         /\ df[i].order_count = other[i].order_count

\* C28: the language choice changes only the label of a category.  Under
\* each of the three choices the filtered records are those the English
\* choice gives, every filtered record has its category's label among the
\* groups of the comparison, the group of a label holds the summed order
\* count of that category in that period, and there are as many groups as
\* categories and periods in the filtered records.
C28_LanguageChangesOnlyLabels ==
    pc_lang = "rendered" =>
        /\ SameRecords(df_named_filtered,
                       FilterNamed(WithDisplay(df_named, "English"), named_selection))
        /\ \A i \in DOMAIN df_named_filtered :
             LET row == df_named_filtered[i]
                 key == <<row.display_category, row.exchange_rate_period>>
             IN  /\ key \in DOMAIN category_comparison
                 /\ category_comparison[key]
                        = OrdersOfCategory(row.category_name, row.exchange_rate_period)
        /\ Cardinality(DOMAIN category_comparison)
             = Cardinality({<<df_named_filtered[i].category_name,
                              df_named_filtered[i].exchange_rate_period>> :
                                i \in DOMAIN df_named_filtered})

-----------------------------------------------------------------------------
(* Properties: cohort retention over the offsets                           *)

RowsOfOneCohort(i, j) ==
    /\ i \in DOMAIN retention_data
    /\ j \in DOMAIN retention_data
    /\ retention_data[i].cohort = retention_data[j].cohort

\* C29: for every cohort the retention rate does not increase from one month
\* offset to a later one, every rate lies between 0 and 100, and the number
\* of customers retained at an offset is at most the size of the cohort.
C29_RetentionNonIncreasing ==
    pc_cohort = "rendered" =>
        /\ \A i \in DOMAIN retention_data :
             LET row == retention_data[i]
             IN  /\ IsNum(row.retention_rate)
                 /\ ~FLess(row.retention_rate, Num(0))
                 /\ ~FLess(Num(100), row.retention_rate)
                 /\ row.customers_retained \in 0..Cardinality(CohortMembers(row.cohort))
        /\ \A i, j \in DOMAIN retention_data :
             (RowsOfOneCohort(i, j) /\ retention_data[i].period <= retention_data[j].period)
                 => /\ ~FLess(retention_data[i].retention_rate, retention_data[j].retention_rate)
                    /\ retention_data[j].customers_retained <= retention_data[i].customers_retained

\* C29 witness: a cohort of two customers whose retention falls from both
\* customers at one offset to one customer at the next and to none later.
C29_Witness ==
    /\ pc_cohort = "rendered"
    /\ \E i, j, l \in DOMAIN retention_data :
         /\ RowsOfOneCohort(i, j) /\ RowsOfOneCohort(j, l)
         /\ retention_data[j].period = retention_data[i].period + 1
         /\ retention_data[l].period > retention_data[j].period
         /\ retention_data[i].customers_retained = 2
         /\ retention_data[j].customers_retained = 1
         /\ retention_data[l].customers_retained = 0

-----------------------------------------------------------------------------
(* Properties: economic indicator extractor, a run without data            *)

\* C30: a run of extract_and_load_all in which no series has returned data
\* performs no warehouse load: no step of such a run submits a load job or
\* changes the bcb_economic_indicators table, so when the run ends with every
\* fetch failed or empty, the table is as it was before the run and no load
\* job carries the run's number.
C30_NoLoadWithoutData ==
    [][ /\ (bq_indicators' # bq_indicators \/ bq_jobs' # bq_jobs)
            => SomeSeriesReturnedData
        /\ (RunExited' /\ ~RunExited /\ ~SomeSeriesReturnedData')
            => /\ bq_indicators' = bq_indicators
               /\ bq_jobs' = bq_jobs
               /\ \A j \in DOMAIN bq_jobs' : bq_jobs'[j].run < clock' ]_vars

\* C30 witness: a second run in which every series failed or came back empty
\* has ended, and the table still holds the rows the first run loaded.
C30_Witness ==
    /\ RunExited
    /\ clock = 2
    /\ Len(requests_made) = Len(SERIES)
    /\ ~SomeSeriesReturnedData
    /\ \E i, j \in DOMAIN requests_made :
         requests_made[i].outcome = "raised" /\ requests_made[j].outcome = "empty"
    /\ bq_indicators # <<>>
    /\ \A i \in DOMAIN bq_indicators : bq_indicators[i].extracted_at = 1
    /\ Len(bq_jobs) = 1

====
